---- MODULE Spec2Model ----
(***************************************************************************)
(* GPU Stress Guardian: the control engine (internal/engine), the XTTS     *)
(* workload adapter (internal/adapter), the throughput tracker             *)
(* (internal/throughput), the rule controller (internal/control) and the   *)
(* daemon's session supervisor (internal/daemon).                          *)
(*                                                                         *)
(* Durations and instants are integers counted in quarter seconds, so the  *)
(* rule controller's 1 s, 1.25 s and 1.5 s cooldown overrides are exact.   *)
(* The zero time.Time is 0; every ticker instant is strictly positive.     *)
(* Rates (bytes per second) are exact fractions [n, d] in lowest terms.    *)
(***************************************************************************)
EXTENDS Integers, Sequences, FiniteSets, TLC

VARIABLES
    cfg,        \* Engine.cfg
    cfg0,       \* history: the Config engine.New was given
    lifecycle,  \* Engine.lifecycle (Phase, Reason, Error)
    epc,        \* position of Engine.Start: "new", "loop", "defer", "returned"
    state,      \* the RunState local of Engine.Start
    result,     \* the *EngineResult of Engine.Start (isNil until the workload started)
    runErr,     \* the error Engine.Start returns ("" is nil)
    adapter,    \* the XTTSAdapter
    tracker,    \* the throughput.Tracker
    clock,      \* instant of the latest ticker tick
    cancelled,  \* ctx.Err() != nil
    tick,       \* what the latest tick decided, did and logged
    lastDir,    \* history: type and instant of the latest directional action the engine applied
    ctl,        \* the controller the engine asks (a control.RuleController where one is built)
    telemetryWindow, \* the telemetryWindow local of Engine.Start
    pin,        \* the arguments of the next RuleController.Decide call made directly
    pout,       \* the action the latest direct Decide call returned (ZeroAction: none since the arguments changed)
    floorRun,   \* history: consecutive direct Decide calls that met the throughput floor rule
    runBase,    \* history: throughputRecoveryAttempts when the current run of such calls began
    sess,       \* the daemon's sessionState (exists = FALSE: none was started)
    spc,        \* position of the session goroutine of startSession
    checkpoint, \* the SessionState last written to the checkpoint file (isNil: none)
    hist,       \* history of the session: engine runs started, how each ended, Pause calls
    call        \* the latest call made directly on the adapter or the tracker, and what it returned

engineVars == <<cfg, cfg0, lifecycle, epc, state, result, runErr, adapter, tracker,
                clock, cancelled, tick, lastDir, ctl, telemetryWindow>>

policyVars == <<pin, pout, floorRun, runBase>>

sessionVars == <<sess, spc, checkpoint, hist>>

callVars == <<call>>

\* what no step of Engine.Start touches
outsideEngine == <<policyVars, sessionVars, callVars>>

----------------------------------------------------------------------------
(* Bounds of the model *)

\* Engine.Start loops until it is told to stop; the model follows at most this many ticks of a run.
MaxTicksBound == 3

----------------------------------------------------------------------------
(* Time and numbers *)

Second == 4

IsZero(t) == t = 0

Abs(x) == IF x < 0 THEN -x ELSE x

RECURSIVE GCD(_, _)
GCD(a, b) == IF b = 0 THEN a ELSE GCD(b, a % b)

\* the float64 n/d, d > 0, n >= 0
Rat(n, d) == LET g == GCD(n, d) IN [n |-> n \div g, d |-> d \div g]

RatZero == Rat(0, 1)

RatPositive(r) == r.n > 0

----------------------------------------------------------------------------
(* control.Action *)

ActionHold == "hold"
ActionIncrease == "increase"
ActionDecrease == "decrease"
ActionPause == "pause"

Action(type, concurrency, reason, cooldownSec) ==
    [Type |-> type, Concurrency |-> concurrency, Reason |-> reason, CooldownSec |-> cooldownSec]

\* the zero value of control.Action
ZeroAction == Action("", 0, "", 0)

----------------------------------------------------------------------------
(* adapter.XTTSAdapter.  cmd is "a.cmd != nil"; childAlive is the operating *)
(* system's view of the child; processState is "a.cmd.ProcessState != nil", *)
(* which only cmd.Wait sets; n is the counting writer's byte count;         *)
(* spawned counts the children ever started, live those of them that are   *)
(* still alive.                                                             *)

NewXttsAdapter ==
    [cmd |-> FALSE, runningFile |-> FALSE, childAlive |-> FALSE, processState |-> FALSE,
     command |-> "", concurrency |-> 1, n |-> 0, spawned |-> 0, live |-> 0]

SpawnOutcomes == {"ok", "file_err", "spawn_err"}

\* exec.CommandContext refuses to start under a context that is already done
SpawnResult(outcome, ctxDone) == IF ctxDone /\ outcome = "ok" THEN "spawn_err" ELSE outcome

startLocked(a, cmd, concurrency, outcome) ==
    IF outcome = "file_err" THEN [a |-> a, err |-> "open output file"]
    ELSE IF outcome = "spawn_err" THEN [a |-> [a EXCEPT !.n = 0], err |-> "spawn failed"]
    ELSE [a |-> [a EXCEPT !.cmd = TRUE, !.runningFile = TRUE, !.childAlive = TRUE,
                          !.processState = FALSE, !.n = 0, !.command = cmd,
                          !.concurrency = concurrency, !.spawned = @ + 1, !.live = @ + 1],
          err |-> ""]

AdapterStart_unguarded(a, cmd, concurrency, outcome) ==
    startLocked(a, cmd, IF concurrency <= 0 THEN 1 ELSE concurrency, outcome)

AdapterStart(a, cmd, concurrency, outcome) ==
    IF a.cmd THEN [a |-> a, err |-> "adapter already started"]
    ELSE startLocked(a, cmd, IF concurrency <= 0 THEN 1 ELSE concurrency, outcome)

stopLocked_strict(a) ==
    IF ~a.cmd THEN [a |-> a, err |-> "adapter not started"]
    ELSE [a |-> [a EXCEPT !.cmd = FALSE, !.runningFile = FALSE, !.childAlive = FALSE,
                          !.processState = FALSE, !.n = 0,
                          !.live = IF a.childAlive THEN @ - 1 ELSE @],
          err |-> ""]

stopLocked(a) ==
    IF ~a.cmd THEN [a |-> a, err |-> ""]
    ELSE [a |-> [a EXCEPT !.cmd = FALSE, !.runningFile = FALSE, !.childAlive = FALSE,
                          !.processState = FALSE, !.n = 0,
                          !.live = IF a.childAlive THEN @ - 1 ELSE @],
          err |-> ""]

AdapterPause(a) == stopLocked(a)

\* a variant that forgets the command without ending its child
AdapterStop_forgets(a) ==
    [a |-> [a EXCEPT !.cmd = FALSE, !.runningFile = FALSE, !.n = 0], err |-> ""]

AdapterStop(a) == stopLocked(a)

AdapterResume(a, outcome) ==
    IF a.cmd THEN [a |-> a, err |-> "adapter already running"]
    ELSE IF a.command = "" THEN [a |-> a, err |-> "no command configured"]
    ELSE startLocked(a, a.command, IF a.concurrency <= 0 THEN 1 ELSE a.concurrency, outcome)

AdapterUpdateParameters(a, concurrency) ==
    IF concurrency <= 0 THEN [a |-> a, err |-> "concurrency must be positive"]
    ELSE [a |-> [a EXCEPT !.concurrency = concurrency], err |-> ""]

AdapterRestart(a, concurrency, outcome) ==
    LET conc == IF concurrency <= 0 THEN a.concurrency ELSE concurrency
        stopped == stopLocked(a)
    IN IF stopped.err # "" THEN stopped
       ELSE IF stopped.a.command = "" THEN [a |-> stopped.a, err |-> "no command configured"]
       ELSE startLocked(stopped.a, stopped.a.command, conc, outcome)

\* the child a.cmd refers to is gone: it exited, or the context of its
\* CommandContext was cancelled
ChildGone(a) == [a EXCEPT !.childAlive = FALSE, !.live = IF a.childAlive THEN @ - 1 ELSE @]

IsRunning(a) == IF ~a.cmd THEN FALSE ELSE a.runningFile /\ ~a.processState

GetPID(a) == IF ~a.cmd THEN 0 ELSE a.spawned

OutputBytes(a) == a.n

----------------------------------------------------------------------------
(* throughput.Tracker *)

Sample(ts, th) == [Timestamp |-> ts, Throughput |-> th]

ZeroSample == Sample(0, RatZero)

NewTracker(throughputWindow, baselineWindow) ==
    [throughputWindow |-> throughputWindow, baselineWindow |-> baselineWindow,
     samples |-> <<>>, lastTotal |-> 0, lastSample |-> 0, startedAt |-> 0,
     baseline |-> RatZero, baselineReady |-> FALSE]

TrackerReset(t) ==
    [t EXCEPT !.samples = <<>>, !.lastSample = 0, !.startedAt = 0, !.lastTotal = 0,
              !.baseline = RatZero, !.baselineReady = FALSE]

RestoreBaseline(t, throughput) ==
    [t EXCEPT !.baseline = throughput, !.baselineReady = RatPositive(throughput)]

RECURSIVE dropOldSamplesLocked(_, _)
dropOldSamplesLocked(samples, cutoff) ==
    IF samples = <<>> \/ Head(samples).Timestamp > cutoff THEN samples
    ELSE dropOldSamplesLocked(Tail(samples), cutoff)

RECURSIVE SumOver(_, _)
\* [n, d, count]: the sum of the rates of the samples not before cutoff, and how many they are
SumOver(samples, cutoff) ==
    IF samples = <<>> THEN [n |-> 0, d |-> 1, count |-> 0]
    ELSE LET rest == SumOver(Tail(samples), cutoff)
             s == Head(samples)
         IN IF s.Timestamp < cutoff THEN rest
            ELSE [n |-> s.Throughput.n * rest.d + rest.n * s.Throughput.d,
                  d |-> s.Throughput.d * rest.d,
                  count |-> rest.count + 1]

averageLocked(samples, now, window) ==
    IF Len(samples) = 0 THEN RatZero
    ELSE LET acc == SumOver(samples, now - window)
         IN IF acc.count = 0 THEN RatZero ELSE Rat(acc.n, acc.d * acc.count)

updateBaselineLocked_everyAdd(t, now) ==
    IF IsZero(t.startedAt) THEN t
    ELSE IF now - t.startedAt < t.baselineWindow THEN t
    ELSE IF Len(t.samples) = 0 THEN t
    ELSE [t EXCEPT !.baseline = averageLocked(t.samples, now, t.baselineWindow),
                   !.baselineReady = TRUE]

updateBaselineLocked(t, now) ==
    IF t.baselineReady \/ IsZero(t.startedAt) THEN t
    ELSE IF now - t.startedAt < t.baselineWindow THEN t
    ELSE IF Len(t.samples) = 0 THEN t
    ELSE [t EXCEPT !.baseline = averageLocked(t.samples, now, t.baselineWindow),
                   !.baselineReady = TRUE]

TrackerAdd_noOrderTest(t, totalUnits, ts) ==
    IF IsZero(t.startedAt)
    THEN [t |-> [t EXCEPT !.startedAt = ts, !.lastSample = ts, !.lastTotal = totalUnits,
                          !.samples = Append(@, Sample(ts, RatZero))],
          s |-> Sample(ts, RatZero)]
    ELSE LET deltaT == ts - t.lastSample
             th == IF deltaT > 0
                   THEN Rat(Abs(totalUnits - t.lastTotal) * Second, deltaT)
                   ELSE RatZero
             s == Sample(ts, th)
             t1 == [t EXCEPT !.lastSample = ts, !.lastTotal = totalUnits,
                             !.samples = dropOldSamplesLocked(Append(@, s), ts - t.throughputWindow)]
         IN [t |-> updateBaselineLocked(t1, ts), s |-> s]

\* Tracker.Add: the tracker after the call and the sample it returns
TrackerAdd(t, totalUnits, ts) ==
    IF IsZero(t.startedAt)
    THEN [t |-> [t EXCEPT !.startedAt = ts, !.lastSample = ts, !.lastTotal = totalUnits,
                          !.samples = Append(@, Sample(ts, RatZero))],
          s |-> Sample(ts, RatZero)]
    ELSE LET deltaT == ts - t.lastSample
             th == IF deltaT > 0 /\ totalUnits >= t.lastTotal
                   THEN Rat((totalUnits - t.lastTotal) * Second, deltaT)
                   ELSE RatZero
             s == Sample(ts, th)
             t1 == [t EXCEPT !.lastSample = ts, !.lastTotal = totalUnits,
                             !.samples = dropOldSamplesLocked(Append(@, s), ts - t.throughputWindow)]
         IN [t |-> updateBaselineLocked(t1, ts), s |-> s]

----------------------------------------------------------------------------
(* telemetry.TelemetrySample and control.StateEstimate.  Temperatures are   *)
(* whole degrees; memory pressure, throttle risk and every ratio or score   *)
(* are in hundredths.                                                       *)

\* a sample the collector has not stamped yet
TelemetrySample(temp, tempValid, mem, memValid, risk, riskValid) ==
    [Timestamp |-> 0, TempC |-> temp, TempValid |-> tempValid,
     MemoryPressure |-> mem, MemoryPressureValid |-> memValid,
     ThrottleRisk |-> risk, ThrottleRiskValid |-> riskValid]

\* the zero value of control.StateEstimate, as Decide reads it
ZeroEstimate ==
    [TempSlopeCPerSec |-> 0, TempSlopeValid |-> FALSE,
     ThroughputTrend |-> 0, ThroughputTrendValid |-> FALSE,
     ThrottleRiskScore |-> 0, ThrottleRiskScoreValid |-> FALSE,
     StabilityIndex |-> 0, StabilityIndexValid |-> FALSE,
     Confidence |-> 0, ConfidenceValid |-> FALSE]

\* control.State
ControlState(current, min, max, baseline, lastActionAt, estimate) ==
    [CurrentConcurrency |-> current, MinConcurrency |-> min, MaxConcurrency |-> max,
     BaselineThroughput |-> baseline, LastActionAt |-> lastActionAt, Estimate |-> estimate]

----------------------------------------------------------------------------
(* control.RuleController *)

\* control.RuleConfig with the fields left out at their zero value
RuleConfig(softTemp, hardTemp, floorRatio, windowSec, floorSec, maxAttempts, maxStep) ==
    [SoftTemp |-> softTemp, HardTemp |-> hardTemp, ThroughputFloorRatio |-> floorRatio,
     ThroughputWindowSec |-> windowSec, ThroughputFloorSec |-> floorSec,
     ThroughputSlowdownFloorRatio |-> 0, ThroughputRecoveryMaxAttempts |-> maxAttempts,
     ThroughputRecoveryStepMultiplier |-> 0, TempHysteresisC |-> 0,
     ThroughputRecoveryMargin |-> 0, MemoryPressureLimit |-> 0, ThrottleRiskLimit |-> 0,
     EstimateConfidenceMin |-> 0, MaxTempSlopeCPerSec |-> 0,
     MinStabilityIndexForIncrease |-> 0, ThroughputTrendDropLimit |-> 0,
     MaxConcurrencyStep |-> maxStep]

NewRuleController(rc) ==
    [SoftTemp |-> rc.SoftTemp, HardTemp |-> rc.HardTemp,
     ThroughputFloorRatio |-> rc.ThroughputFloorRatio,
     ThroughputWindow |-> rc.ThroughputWindowSec * Second,
     ThroughputFloorWindow |-> rc.ThroughputFloorSec * Second,
     ThroughputSlowdownFloorRatio |-> rc.ThroughputSlowdownFloorRatio,
     ThroughputRecoveryMaxAttempts |-> rc.ThroughputRecoveryMaxAttempts,
     ThroughputRecoveryStepMultiplier |-> rc.ThroughputRecoveryStepMultiplier,
     TempHysteresisC |-> rc.TempHysteresisC,
     ThroughputRecoveryMargin |-> rc.ThroughputRecoveryMargin,
     MemoryPressureLimit |-> rc.MemoryPressureLimit,
     ThrottleRiskLimit |-> rc.ThrottleRiskLimit,
     EstimateConfidenceMin |-> rc.EstimateConfidenceMin,
     MaxTempSlopeCPerSec |-> rc.MaxTempSlopeCPerSec,
     MinStabilityIndexForIncrease |-> rc.MinStabilityIndexForIncrease,
     ThroughputTrendDropLimit |-> rc.ThroughputTrendDropLimit,
     MaxConcurrencyStep |-> rc.MaxConcurrencyStep,
     throughputRecoveryAttempts |-> 0]

defaults(c) ==
    LET c1 == [c EXCEPT !.SoftTemp = IF @ <= 0 THEN 78 ELSE @,
                        !.HardTemp = IF @ <= 0 THEN 84 ELSE @,
                        !.ThroughputFloorRatio = IF @ <= 0 THEN 70 ELSE @,
                        !.TempHysteresisC = IF @ < 0 THEN 0 ELSE @,
                        !.ThroughputRecoveryMargin = IF @ <= 0 THEN 5 ELSE @]
        c2 == [c1 EXCEPT !.ThroughputSlowdownFloorRatio =
                             IF @ <= 0 \/ @ > c1.ThroughputFloorRatio THEN 50 ELSE @,
                         !.ThroughputRecoveryMaxAttempts = IF @ <= 0 THEN 3 ELSE @,
                         !.ThroughputRecoveryStepMultiplier = IF @ <= 1 THEN 2 ELSE @,
                         !.MemoryPressureLimit = IF @ <= 0 THEN 90 ELSE @,
                         !.ThrottleRiskLimit = IF @ <= 0 THEN 85 ELSE @,
                         !.MaxConcurrencyStep = IF @ <= 0 THEN 1 ELSE @,
                         !.EstimateConfidenceMin = IF @ <= 0 THEN 40 ELSE @,
                         !.MaxTempSlopeCPerSec = IF @ <= 0 THEN 200 ELSE @,
                         !.MinStabilityIndexForIncrease = IF @ <= 0 THEN 55 ELSE @,
                         !.ThroughputTrendDropLimit = IF @ >= 0 THEN -18 ELSE @]
    IN c2

\* the indices of the samples whose flag is set
ValidAt(samples, flag) == {i \in 1..Len(samples) : samples[i][flag]}

\* the scan "for i := len(samples) - 1; i >= 0; i--" returning at the first hit
LastIndex(S) == CHOOSE i \in S : \A j \in S : j <= i

latestTemp(samples) ==
    LET S == ValidAt(samples, "TempValid")
    IN IF S = {} THEN [v |-> 0, ok |-> FALSE] ELSE [v |-> samples[LastIndex(S)].TempC, ok |-> TRUE]

previousTemp(samples) ==
    LET S == ValidAt(samples, "TempValid")
        P == IF S = {} THEN {} ELSE S \ {LastIndex(S)}
    IN IF P = {} THEN [v |-> 0, ok |-> FALSE] ELSE [v |-> samples[LastIndex(P)].TempC, ok |-> TRUE]

\* a variant that looks at the newest sample only
latestMemoryPressure_newestOnly(samples) ==
    IF samples # <<>> /\ samples[Len(samples)].MemoryPressureValid
    THEN [v |-> samples[Len(samples)].MemoryPressure, ok |-> TRUE]
    ELSE [v |-> 0, ok |-> FALSE]

latestMemoryPressure(samples) ==
    LET S == ValidAt(samples, "MemoryPressureValid")
    IN IF S = {} THEN [v |-> 0, ok |-> FALSE]
       ELSE [v |-> samples[LastIndex(S)].MemoryPressure, ok |-> TRUE]

latestThrottleRisk(samples) ==
    LET S == ValidAt(samples, "ThrottleRiskValid")
    IN IF S = {} THEN [v |-> 0, ok |-> FALSE]
       ELSE [v |-> samples[LastIndex(S)].ThrottleRisk, ok |-> TRUE]

avgThroughput(samples, window, now) == averageLocked(samples, now, window)

\* a < b for two rates
RatLess(a, b) == a.n * b.d < b.n * a.d

\* the rate r scaled by a ratio given in hundredths
RatScale(r, hundredths) == Rat(r.n * hundredths, r.d * 100)

\* a variant that is content with one sample below the threshold
throughputBelowThreshold_anySample(samples, now, threshold, window) ==
    IF ~RatPositive(threshold) THEN FALSE
    ELSE \E i \in 1..Len(samples) :
            samples[i].Timestamp >= now - window /\ RatLess(samples[i].Throughput, threshold)

throughputBelowThreshold(samples, now, threshold, window) ==
    IF ~RatPositive(threshold) THEN FALSE
    ELSE \A i \in 1..Len(samples) :
            samples[i].Timestamp < now - window \/ RatLess(samples[i].Throughput, threshold)

\* a variant that lets the temperature come up to the soft limit itself
shouldIncrease_noHysteresis(c, st, avgTp, temp, memPressure, throttleRisk, estimate) ==
    IF st.CurrentConcurrency >= st.MaxConcurrency THEN FALSE
    ELSE IF estimate.StabilityIndexValid /\ estimate.StabilityIndex < c.MinStabilityIndexForIncrease
    THEN FALSE
    ELSE IF estimate.ConfidenceValid /\ estimate.Confidence < c.EstimateConfidenceMin THEN FALSE
    ELSE IF temp > c.SoftTemp THEN FALSE
    ELSE IF memPressure >= c.MemoryPressureLimit - 3 THEN FALSE
    ELSE IF throttleRisk * 10 >= c.ThrottleRiskLimit * 8 THEN FALSE
    ELSE IF ~RatPositive(st.BaselineThroughput) THEN TRUE
    ELSE ~RatLess(avgTp, RatScale(st.BaselineThroughput,
                                  c.ThroughputFloorRatio + c.ThroughputRecoveryMargin))

shouldIncrease(c, st, avgTp, temp, memPressure, throttleRisk, estimate) ==
    IF st.CurrentConcurrency >= st.MaxConcurrency THEN FALSE
    ELSE IF estimate.StabilityIndexValid /\ estimate.StabilityIndex < c.MinStabilityIndexForIncrease
    THEN FALSE
    ELSE IF estimate.ConfidenceValid /\ estimate.Confidence < c.EstimateConfidenceMin THEN FALSE
    ELSE IF temp > c.SoftTemp - c.TempHysteresisC THEN FALSE
    ELSE IF memPressure >= c.MemoryPressureLimit - 3 THEN FALSE
    ELSE IF throttleRisk * 10 >= c.ThrottleRiskLimit * 8 THEN FALSE
    ELSE IF ~RatPositive(st.BaselineThroughput) THEN TRUE
    ELSE ~RatLess(avgTp, RatScale(st.BaselineThroughput,
                                  c.ThroughputFloorRatio + c.ThroughputRecoveryMargin))

actionDecrease(current, step, reason) ==
    Action(ActionDecrease, current - (IF step < 1 THEN 1 ELSE step), reason, 0)

actionIncrease(current, step, reason) ==
    Action(ActionIncrease, current + (IF step < 1 THEN 1 ELSE step), reason, 0)

actionPause(reason) == Action(ActionPause, 0, reason, 0)

NoArguments == [samples |-> <<>>, through |-> <<>>, st |-> ControlState(0, 0, 0, RatZero, 0, ZeroEstimate)]

\* a variant that pauses one attempt early
recoveryAttempt_oneEarly(c) ==
    LET attempts == c.throughputRecoveryAttempts + 1
    IN IF attempts >= c.ThroughputRecoveryMaxAttempts
       THEN [c |-> [c EXCEPT !.throughputRecoveryAttempts = c.ThroughputRecoveryMaxAttempts],
             exceeded |-> TRUE]
       ELSE [c |-> [c EXCEPT !.throughputRecoveryAttempts = attempts], exceeded |-> FALSE]

\* the counting of one recovery attempt in Decide: the controller afterwards
\* and whether the attempts are exceeded
recoveryAttempt(c) ==
    LET attempts == c.throughputRecoveryAttempts + 1
    IN IF attempts > c.ThroughputRecoveryMaxAttempts
       THEN [c |-> [c EXCEPT !.throughputRecoveryAttempts = c.ThroughputRecoveryMaxAttempts],
             exceeded |-> TRUE]
       ELSE [c |-> [c EXCEPT !.throughputRecoveryAttempts = attempts], exceeded |-> FALSE]

\* the controller of an engine whose controller is not a RuleController
recoveryStep_single(c) == c.MaxConcurrencyStep

\* the step of the decrease below the slowdown fallback
recoveryStep(c) == c.MaxConcurrencyStep * c.ThroughputRecoveryStepMultiplier

NoController == [throughputRecoveryAttempts |-> 0]

\* RuleController.Decide at instant now (its time.Now()): the controller after
\* the call and the action returned.  Action.CooldownSec is carried in the
\* model's time unit (1.5 s is six quarters).
Decide(c0, samples, through, st, now) ==
    LET c == defaults(c0)
        hold == Action(ActionHold, st.CurrentConcurrency, "no-op", 0)
        avgTp == avgThroughput(through, c.ThroughputWindow, now)
        temp == latestTemp(samples)
        prevTemp == previousTemp(samples)
        memPressure == latestMemoryPressure(samples)
        throttleRisk == latestThrottleRisk(samples)
        estThrottleRisk == IF st.Estimate.ThrottleRiskScoreValid
                           THEN [v |-> st.Estimate.ThrottleRiskScore, ok |-> TRUE]
                           ELSE throttleRisk
        threshold == RatScale(st.BaselineThroughput, c.ThroughputFloorRatio)
        slowdownThreshold == RatScale(st.BaselineThroughput, c.ThroughputSlowdownFloorRatio)
        belowFloor == throughputBelowThreshold(through, now, threshold, c.ThroughputFloorWindow)
        belowSlowdown == throughputBelowThreshold(through, now, slowdownThreshold,
                                                  c.ThroughputFloorWindow)
        attempt == recoveryAttempt(c)
        \* the controller once the floor block was passed without a recovery step
        cleared == IF RatPositive(st.BaselineThroughput)
                   THEN [c EXCEPT !.throughputRecoveryAttempts = 0] ELSE c
    IN IF memPressure.ok /\ memPressure.v >= 100
       THEN [c |-> c, action |-> actionPause("vram ceiling exceeded")]
       ELSE IF temp.ok /\ temp.v >= c.HardTemp
       THEN [c |-> c, action |-> actionPause("hard temperature limit exceeded")]
       ELSE IF temp.ok /\ prevTemp.ok /\ temp.v >= c.SoftTemp /\ temp.v > prevTemp.v
       THEN [c |-> c,
             action |-> [actionDecrease(st.CurrentConcurrency, c.MaxConcurrencyStep,
                                        "temperature rising at/above soft limit")
                         EXCEPT !.CooldownSec = Second]]
       ELSE IF memPressure.ok /\ memPressure.v >= c.MemoryPressureLimit
       THEN [c |-> c,
             action |-> [actionDecrease(st.CurrentConcurrency, c.MaxConcurrencyStep,
                                        "memory pressure near saturation")
                         EXCEPT !.CooldownSec = (3 * Second) \div 2]]
       ELSE IF st.Estimate.TempSlopeValid /\ st.Estimate.TempSlopeCPerSec >= c.MaxTempSlopeCPerSec
       THEN [c |-> c,
             action |-> [actionDecrease(st.CurrentConcurrency, c.MaxConcurrencyStep,
                                        "temperature rising too fast")
                         EXCEPT !.CooldownSec = (3 * Second) \div 2]]
       ELSE IF estThrottleRisk.ok /\ estThrottleRisk.v >= c.ThrottleRiskLimit
       THEN [c |-> c,
             action |-> [actionDecrease(st.CurrentConcurrency, c.MaxConcurrencyStep,
                                        "throttle risk elevated")
                         EXCEPT !.CooldownSec = (3 * Second) \div 2]]
       ELSE IF st.Estimate.ThroughputTrendValid
               /\ st.Estimate.ThroughputTrend < c.ThroughputTrendDropLimit
       THEN [c |-> c,
             action |-> [actionDecrease(st.CurrentConcurrency, c.MaxConcurrencyStep,
                                        "throughput trend dropped")
                         EXCEPT !.CooldownSec = (5 * Second) \div 4]]
       ELSE IF RatPositive(st.BaselineThroughput) /\ (belowFloor \/ belowSlowdown)
               /\ RatPositive(avgTp)
       THEN IF attempt.exceeded
            THEN [c |-> attempt.c,
                  action |-> actionPause(
                      "throughput recovery attempts exceeded, pausing to preserve state")]
            ELSE IF belowSlowdown
            THEN [c |-> attempt.c,
                  action |-> actionDecrease(st.CurrentConcurrency, recoveryStep(c),
                      "throughput below slowdown fallback, aggressive recovery")]
            ELSE [c |-> attempt.c,
                  action |-> actionDecrease(st.CurrentConcurrency, c.MaxConcurrencyStep,
                                            "throughput below floor sustained")]
       ELSE IF ~temp.ok
       THEN [c |-> cleared,
             action |-> [hold EXCEPT !.Reason = "telemetry missing temp, no safe directional action"]]
       ELSE IF st.Estimate.ConfidenceValid /\ st.Estimate.Confidence < c.EstimateConfidenceMin
       THEN [c |-> cleared,
             action |-> [hold EXCEPT !.Reason = "estimate confidence below configured threshold"]]
       ELSE IF shouldIncrease(c, st, avgTp, temp.v, memPressure.v, estThrottleRisk.v, st.Estimate)
       THEN [c |-> cleared,
             action |-> actionIncrease(st.CurrentConcurrency, 1, "temperature and throughput stable")]
       ELSE [c |-> cleared, action |-> hold]

----------------------------------------------------------------------------
(* control.StateEstimator.  The estimates the engine keeps are exact        *)
(* fractions (Rat), slopes in degrees per second.                           *)

RatAdd(a, b) == Rat(a.n * b.d + b.n * a.d, a.d * b.d)

RatMul(a, b) == Rat(a.n * b.n, a.d * b.d)

RatOne == Rat(1, 1)

clamp01(v) == IF v.n < 0 THEN RatZero ELSE IF v.n > v.d THEN RatOne ELSE v

\* the zero value of control.StateEstimate, as RunState holds it
NoEstimate ==
    [TempSlopeCPerSec |-> RatZero, TempSlopeValid |-> FALSE,
     ThroughputTrend |-> RatZero, ThroughputTrendValid |-> FALSE,
     ThrottleRiskScore |-> RatZero, ThrottleRiskScoreValid |-> FALSE,
     StabilityIndex |-> RatZero, StabilityIndexValid |-> FALSE,
     Confidence |-> RatZero, ConfidenceValid |-> FALSE]

NewStateEstimator ==
    [smoothing |-> Rat(35, 100), initialized |-> FALSE,
     smoothedTempSlope |-> RatZero, smoothedThroughputTrend |-> RatZero,
     smoothedThrottleRisk |-> RatZero, smoothedStability |-> RatZero,
     smoothedConfidence |-> RatZero]

\* the slope between the two newest samples with a valid temperature
tempSlope(samples) ==
    LET S == ValidAt(samples, "TempValid")
        P == IF S = {} THEN {} ELSE S \ {LastIndex(S)}
    IN IF P = {} THEN [v |-> RatZero, ok |-> FALSE]
       ELSE LET current == samples[LastIndex(S)]
                previous == samples[LastIndex(P)]
                delta == current.Timestamp - previous.Timestamp
            IN IF delta <= 0 THEN [v |-> RatZero, ok |-> FALSE]
               ELSE [v |-> Rat((current.TempC - previous.TempC) * Second, delta), ok |-> TRUE]

\* the relative change between the two newest throughput samples that carry a
\* timestamp
throughputTrend(samples) ==
    LET S == {i \in 1..Len(samples) : ~IsZero(samples[i].Timestamp)}
        P == IF S = {} THEN {} ELSE S \ {LastIndex(S)}
    IN IF Len(samples) < 2 \/ P = {} THEN [v |-> RatZero, ok |-> FALSE]
       ELSE LET current == samples[LastIndex(S)]
                previous == samples[LastIndex(P)]
            IN IF current.Timestamp - previous.Timestamp <= 0 THEN [v |-> RatZero, ok |-> FALSE]
               ELSE IF previous.Throughput.n = 0
               THEN [v |-> IF current.Throughput.n = 0 THEN RatZero ELSE RatOne, ok |-> TRUE]
               ELSE [v |-> Rat((current.Throughput.n * previous.Throughput.d
                                  - previous.Throughput.n * current.Throughput.d)
                                 * previous.Throughput.d,
                               current.Throughput.d * previous.Throughput.d
                                 * previous.Throughput.n),
                     ok |-> TRUE]

\* the samples modelled carry no throttle reasons (ThrottleReasonsValid false)
throttleRiskScore(samples) ==
    LET S == ValidAt(samples, "ThrottleRiskValid")
    IN IF S = {} THEN [v |-> RatZero, ok |-> FALSE]
       ELSE [v |-> clamp01(Rat(samples[LastIndex(S)].ThrottleRisk, 100)), ok |-> TRUE]

stabilityEstimate(slope, trend, risk) ==
    IF ~slope.ok /\ ~trend.ok /\ ~risk.ok THEN [v |-> RatZero, ok |-> FALSE]
    ELSE LET tempTerm == IF slope.ok THEN clamp01(Rat(Abs(slope.v.n), slope.v.d * 5)) ELSE RatZero
             trendTerm == IF trend.ok THEN clamp01(Rat(Abs(trend.v.n) * 2, trend.v.d)) ELSE RatZero
             riskTerm == IF risk.ok THEN clamp01(risk.v) ELSE RatZero
             loss == RatAdd(RatMul(Rat(45, 100), tempTerm),
                            RatAdd(RatMul(Rat(35, 100), trendTerm), RatMul(Rat(20, 100), riskTerm)))
         IN [v |-> clamp01(Rat(loss.d - loss.n, loss.d)), ok |-> TRUE]

confidence(slopeValid, trendValid, riskValid) ==
    clamp01(Rat(Cardinality({i \in 1..3 : <<slopeValid, trendValid, riskValid>>[i]}), 3))

\* a variant that fuses the raw value in the first call as well
updateEstimate_noBootstrap(e, raw, valid, smoothed) ==
    IF ~valid THEN smoothed
    ELSE RatAdd(RatMul(e.smoothing, raw),
                RatMul(Rat(e.smoothing.d - e.smoothing.n, e.smoothing.d), smoothed))

\* StateEstimator.updateEstimate: the smoothed value afterwards, which is
\* also the value observed
updateEstimate(e, raw, valid, smoothed) ==
    IF ~valid THEN smoothed
    ELSE IF ~e.initialized THEN raw
    ELSE RatAdd(RatMul(e.smoothing, raw),
                RatMul(Rat(e.smoothing.d - e.smoothing.n, e.smoothing.d), smoothed))

updateConfidence(e, raw) ==
    IF ~e.initialized THEN raw
    ELSE RatAdd(RatMul(e.smoothing, raw),
                RatMul(Rat(e.smoothing.d - e.smoothing.n, e.smoothing.d), e.smoothedConfidence))

\* StateEstimator.Estimate: the estimator afterwards and the estimate
Estimate(e, telemetrySamples, throughSamples) ==
    LET slope == tempSlope(telemetrySamples)
        trend == throughputTrend(throughSamples)
        risk == throttleRiskScore(telemetrySamples)
        stability == stabilityEstimate(slope, trend, risk)
        e1 == [e EXCEPT
                 !.smoothedTempSlope = updateEstimate(e, slope.v, slope.ok, @),
                 !.smoothedThroughputTrend = updateEstimate(e, trend.v, trend.ok, @),
                 !.smoothedThrottleRisk = updateEstimate(e, risk.v, risk.ok, @),
                 !.smoothedStability = updateEstimate(e, stability.v, stability.ok, @),
                 !.smoothedConfidence = updateConfidence(e, confidence(slope.ok, trend.ok, risk.ok)),
                 !.initialized = TRUE]
    IN [e |-> e1,
        estimate |->
            [TempSlopeCPerSec |-> e1.smoothedTempSlope, TempSlopeValid |-> slope.ok,
             ThroughputTrend |-> e1.smoothedThroughputTrend, ThroughputTrendValid |-> trend.ok,
             ThrottleRiskScore |-> e1.smoothedThrottleRisk, ThrottleRiskScoreValid |-> risk.ok,
             StabilityIndex |-> e1.smoothedStability, StabilityIndexValid |-> stability.ok,
             Confidence |-> e1.smoothedConfidence, ConfidenceValid |-> TRUE]]

\* the engine's estimator, read off the estimate it returned last: Estimate
\* leaves every smoothed value equal to the value it reports, and it has run
\* exactly when the estimate's confidence is valid
estimatorAfter(estimate) ==
    IF ~estimate.ConfidenceValid THEN NewStateEstimator
    ELSE [NewStateEstimator EXCEPT
            !.initialized = TRUE,
            !.smoothedTempSlope = estimate.TempSlopeCPerSec,
            !.smoothedThroughputTrend = estimate.ThroughputTrend,
            !.smoothedThrottleRisk = estimate.ThrottleRiskScore,
            !.smoothedStability = estimate.StabilityIndex,
            !.smoothedConfidence = estimate.Confidence]

----------------------------------------------------------------------------
(* engine.Config.  The raw configurations an engine is built with.          *)
(* ThroughputFloorRatio is in hundredths.                                   *)

Config(command, poll, minC, maxC, startC, cooldown, step, maxTicks, baseline, telemetryPath) ==
    [Command |-> command, PollInterval |-> poll, SoftTemp |-> 0, HardTemp |-> 0,
     MinConcurrency |-> minC, MaxConcurrency |-> maxC, StartConcurrency |-> startC,
     ThroughputFloorRatio |-> 0, AdjustmentCooldown |-> cooldown,
     ThroughputWindow |-> 3 * Second, ThroughputFloorWindow |-> 0, BaselineWindow |-> 2 * Second,
     MaxConcurrencyStep |-> step, MaxTicks |-> maxTicks, TelemetryLogPath |-> telemetryPath,
     InitialBaselineThroughput |-> Rat(baseline, 1)]

EngineConfigs ==
    { Config("run", Second, 1, 6, 2, 2 * Second, 2, 0, 0, ""),
      Config("run", 0, 0, 0, 0, 0, 0, -1, 0, ""),
      Config("run", Second, 5, 3, 9, 2 * Second, 0, 1, 0, "telemetry.log"),
      Config("run", Second, 2, 4, 0, Second, 1, 2, 8, ""),
      Config("", Second, 1, 4, 2, 2 * Second, 1, 0, 0, "") }

RunState(concurrency) ==
    [Ticks |-> 0, CurrentConcurrency |-> concurrency, LastAction |-> ZeroAction,
     LastActionAt |-> 0, LastTelemetryAt |-> 0, LastThroughput |-> ZeroSample,
     BaselineThroughput |-> RatZero, ProcessPID |-> 0, Estimate |-> NoEstimate]

NilResult == [isNil |-> TRUE, State |-> RunState(0), Reason |-> ""]

LifecycleIdle == "idle"
LifecycleStarting == "starting"
LifecycleRunning == "running"
LifecycleStopping == "stopping"
LifecycleStopped == "stopped"
LifecycleFailed == "failed"

setLifecycle(phase, reason, err) == [Phase |-> phase, Reason |-> reason, Error |-> err]

clampInt(v, min, max) == IF v < min THEN min ELSE IF v > max THEN max ELSE v

\* a variant that forgets the action's own cooldown override
actionMinCooldown_ignoringOverride(c, overrideSec) == c

actionMinCooldown(c, overrideSec) ==
    IF overrideSec <= 0 THEN c
    ELSE IF overrideSec > c THEN overrideSec ELSE c

isDirectionalAction(t) == t = ActionIncrease \/ t = ActionDecrease

isOppositeDirection(prev, next) ==
    \/ prev = ActionIncrease /\ next = ActionDecrease
    \/ prev = ActionDecrease /\ next = ActionIncrease

\* a variant that steps towards the target without clamping it to [min, max]
boundedStepDelta_unclamped(current, target, min, max, step) ==
    LET stp == IF step <= 1 THEN 1 ELSE step
        delta == target - current
    IN IF delta > stp THEN current + stp
       ELSE IF delta < -stp THEN current - stp
       ELSE target

\* a variant that jumps to the clamped target in one move
boundedStepDelta_unstepped(current, target, min, max, step) == clampInt(target, min, max)

boundedStepDelta(current, target, min, max, step) ==
    LET tgt == clampInt(target, min, max)
        stp == IF step <= 1 THEN 1 ELSE step
        delta == tgt - current
    IN IF delta > stp THEN current + stp
       ELSE IF delta < -stp THEN current - stp
       ELSE tgt

\* Engine.ensureConfig: the normalised configuration, or the error.  The
\* controller and the adapter are always supplied.
ensureConfig(c) ==
    IF c.Command = "" THEN [cfg |-> c, err |-> "command is required"]
    ELSE
    LET c1 == [c EXCEPT !.PollInterval = IF @ <= 0 THEN 2 * Second ELSE @,
                        !.AdjustmentCooldown = IF @ <= 0 THEN 10 * Second ELSE @,
                        !.SoftTemp = IF @ <= 0 THEN 78 ELSE @,
                        !.HardTemp = IF @ <= 0 THEN 84 ELSE @,
                        !.MinConcurrency = IF @ <= 0 THEN 1 ELSE @]
        c2 == [c1 EXCEPT !.MaxConcurrency = IF @ <= 0 THEN c1.MinConcurrency ELSE @]
        c3 == [c2 EXCEPT !.MinConcurrency = IF @ > c2.MaxConcurrency THEN c2.MaxConcurrency ELSE @]
        c4 == [c3 EXCEPT !.StartConcurrency = IF @ < c3.MinConcurrency THEN c3.MinConcurrency ELSE @]
        c5 == [c4 EXCEPT !.StartConcurrency = IF @ > c4.MaxConcurrency THEN c4.MaxConcurrency ELSE @]
        c6 == [c5 EXCEPT !.ThroughputFloorRatio = IF @ <= 0 THEN 70 ELSE @,
                         !.ThroughputWindow = IF @ <= 0 THEN 30 * Second ELSE @,
                         !.BaselineWindow = IF @ <= 0 THEN 120 * Second ELSE @,
                         !.ThroughputFloorWindow = IF @ <= 0 THEN 30 * Second ELSE @,
                         !.MaxTicks = IF @ < 0 THEN 0 ELSE @,
                         !.MaxConcurrencyStep = IF @ <= 0 THEN 1 ELSE @]
    IN [cfg |-> c6, err |-> ""]

----------------------------------------------------------------------------
(* The Controller the engine asks (control.Controller is an interface): the *)
(* actions a controller may return for the current concurrency.             *)

\* the concurrency an increase may ask for: one more, or far beyond any maximum
IncreaseTargets(current) == {current + 1, 10}

\* the concurrency a decrease may ask for: one less, or below any minimum
DecreaseTargets(current) == {current - 1, 0}

CooldownOverrides == {0, 3 * Second}

ControllerActions(current) ==
    { Action(ActionHold, current, "no-op", 0),
      Action(ActionPause, 0, "vram ceiling exceeded", 0) }
    \cup { Action(ActionIncrease, c, "policy", cd) :
             c \in IncreaseTargets(current), cd \in CooldownOverrides }
    \cup { Action(ActionDecrease, c, "policy", cd) :
             c \in DecreaseTargets(current), cd \in CooldownOverrides }

\* cumulative output bytes the child wrote since the previous reading
ByteDeltas == {8}

\* poll intervals between two delivered ticks (a tick is late when the restart
\* of the workload blocked the loop)
TickGaps == {1, 2}

\* what startLocked may meet during a restart
RestartOutcomes == {"ok", "spawn_err"}

\* simulation.Replay: the locals its loop carries from tick to tick, before
\* the first sample (lastAction.Type = ActionHold, lastActionAt zero)
NoReplay ==
    [currentConcurrency |-> 0, lastAction |-> ActionHold, lastActionAt |-> 0,
     changedAt |-> 0, returned |-> FALSE]

\* simulation.effectiveCooldown
effectiveCooldown(base, cooldownSec) ==
    IF cooldownSec <= 0 THEN base
    ELSE IF cooldownSec > base THEN cooldownSec ELSE base

\* simulation.Replay, one pass of its loop from the policy's action on: the
\* cooldown substitution, the bounded step, and the locals it leaves
ReplayStep(r, action, now, c) ==
    LET cooldown0 == effectiveCooldown(c.AdjustmentCooldown, action.CooldownSec)
        cooldown == IF isDirectionalAction(action.Type)
                       /\ isOppositeDirection(r.lastAction, action.Type)
                    THEN cooldown0 * 2 ELSE cooldown0
        cooled == IF action.Type # ActionHold /\ ~IsZero(r.lastActionAt)
                     /\ now - r.lastActionAt < cooldown
                  THEN Action(ActionHold, r.currentConcurrency, "cooldown", 0)
                  ELSE action
        target == boundedStepDelta(r.currentConcurrency, cooled.Concurrency,
                                   c.MinConcurrency, c.MaxConcurrency, c.MaxConcurrencyStep)
    IN IF r.returned \/ cooled.Type = ActionHold THEN r
       ELSE IF cooled.Type = ActionPause THEN [r EXCEPT !.returned = TRUE]
       ELSE IF target = r.currentConcurrency THEN r
       ELSE [r EXCEPT !.currentConcurrency = target, !.lastAction = cooled.Type,
                      !.lastActionAt = now, !.changedAt = now]

NoTick ==
    [n |-> 0, now |-> 0, outcome |-> "none", decided |-> ZeroAction, cooldown |-> 0,
     final |-> ZeroAction, prevConcurrency |-> 0, prevLastActionAt |-> 0,
     prevLastAction |-> ZeroAction, restartCalled |-> FALSE, pauseCalled |-> FALSE,
     prevDir |-> [Type |-> "", At |-> 0], childExited |-> FALSE, logged |-> {},
     ctxDone |-> FALSE, replay |-> NoReplay, restartsOk |-> TRUE]

NoDirection == [Type |-> "", At |-> 0]

SessionGoalRun == "run"
SessionGoalRecovering == "recovering"
SessionGoalPaused == "paused"
SessionGoalStopped == "stopped"

SessionModeStateless == "stateless"
SessionModeStateful == "stateful"

\* no sessionState in Server.running
NoSession ==
    [exists |-> FALSE, running |-> FALSE, goal |-> "", mode |-> "", retries |-> 0,
     recoveryMaxRetries |-> 0, recoveryCooldown |-> 0, checkpointPath |-> "",
     result |-> NilResult, lastErr |-> "", errors |-> <<>>, lastAction |-> ZeroAction,
     engineCfg |-> Config("", 0, 0, 0, 0, 0, 0, 0, 0, ""), next |-> ""]

\* no checkpoint file
NoCheckpoint ==
    [isNil |-> TRUE, Running |-> FALSE, Goal |-> "", Retries |-> 0, CurrentConcurrency |-> 0,
     BaselineThroughput |-> RatZero, LastReason |-> ""]

NoHistory == [runs |-> 0, ended |-> <<>>, pauseCalls |-> 0, startErr |-> ""]

maxTelemetrySamples == 300

appendTelemetry(samples, s) ==
    LET all == Append(samples, s)
    IN IF Len(all) <= maxTelemetrySamples THEN all
       ELSE SubSeq(all, Len(all) - maxTelemetrySamples + 1, Len(all))

\* what the collector samples for an engine whose controller is not modelled
EngineTelemetry == {TelemetrySample(60, TRUE, 50, TRUE, 0, FALSE)}

----------------------------------------------------------------------------
(* Engine.Start *)

\* engine.New followed by the first statement of Start: setLifecycle(starting)
EngineBegin ==
    /\ epc = "new"
    /\ lifecycle' = setLifecycle(LifecycleStarting, "starting", "")
    /\ epc' = "starting"
    /\ UNCHANGED <<cfg, cfg0, state, result, runErr, adapter, tracker, clock, cancelled, tick, lastDir,
                   ctl, telemetryWindow>>
    /\ UNCHANGED outsideEngine

\* Start up to the loop: ensureConfig, ensureTelemetryStore, the seeding of
\* the baseline and adapter.Start
EngineStart ==
    /\ epc = "starting"
    /\ \E storeOk \in BOOLEAN, outcome \in SpawnOutcomes :
        LET checked == ensureConfig(cfg)
            c == checked.cfg
            seeded == RatPositive(c.InitialBaselineThroughput)
            st0 == [RunState(c.StartConcurrency) EXCEPT
                      !.BaselineThroughput = IF seeded THEN c.InitialBaselineThroughput ELSE @]
            trk == IF seeded THEN RestoreBaseline(tracker, c.InitialBaselineThroughput) ELSE tracker
            started == AdapterStart(adapter, c.Command, st0.CurrentConcurrency,
                                    SpawnResult(outcome, cancelled))
            st1 == [st0 EXCEPT !.ProcessPID = GetPID(started.a)]
        IN IF checked.err # ""
           THEN /\ lifecycle' = setLifecycle(LifecycleFailed, "invalid_config", checked.err)
                /\ runErr' = checked.err
                /\ epc' = "returned"
                /\ result' = NilResult
                /\ UNCHANGED <<cfg, state, adapter, tracker, lastDir>>
           ELSE IF c.TelemetryLogPath # "" /\ ~storeOk
           THEN /\ cfg' = c
                /\ lifecycle' = setLifecycle(LifecycleFailed, "telemetry_store_failed", "open telemetry log")
                /\ runErr' = "open telemetry log"
                /\ epc' = "returned"
                /\ result' = NilResult
                /\ UNCHANGED <<state, adapter, tracker, lastDir>>
           ELSE IF started.err # ""
           THEN /\ cfg' = c
                /\ tracker' = trk
                /\ state' = st0
                /\ adapter' = started.a
                /\ lifecycle' = setLifecycle(LifecycleFailed, "start_failed", started.err)
                /\ runErr' = started.err
                /\ epc' = "returned"
                /\ result' = NilResult
                /\ UNCHANGED lastDir
           ELSE /\ cfg' = c
                /\ tracker' = trk
                /\ adapter' = started.a
                /\ lifecycle' = setLifecycle(LifecycleRunning, "running", "")
                /\ state' = st1
                /\ result' = [isNil |-> FALSE, State |-> st1, Reason |-> ""]
                /\ runErr' = ""
                /\ epc' = "loop"
                /\ lastDir' = NoDirection
    /\ telemetryWindow' = <<>>
    /\ UNCHANGED <<cfg0, clock, cancelled, tick, ctl>>
    /\ UNCHANGED outsideEngine

\* case <-ctx.Done()
CtxDone ==
    /\ epc = "loop"
    /\ cancelled
    /\ result' = [isNil |-> FALSE, State |-> state, Reason |-> "shutdown_requested"]
    /\ lifecycle' = setLifecycle(LifecycleStopping, "shutdown_requested", "")
    /\ runErr' = ""
    /\ epc' = "defer"
    /\ UNCHANGED <<cfg, cfg0, state, adapter, tracker, clock, cancelled, tick, lastDir, ctl,
                   telemetryWindow>>
    /\ UNCHANGED outsideEngine

afterRestart_always(st, err, concurrency) == [st EXCEPT !.CurrentConcurrency = concurrency]

\* the RunState after e.adapter.Restart returned err: the concurrency is
\* taken over only when the restart succeeded
afterRestart(st, err, concurrency) ==
    IF err # "" THEN st ELSE [st EXCEPT !.CurrentConcurrency = concurrency]

\* the part of the loop body after the policy decided: cooldown, pause,
\* bounded step, restart.  st2, a1, added are the run state, the adapter and
\* the tracker's answer after the sampling steps.
Actuate(now, st2, a1, added, obs0, decided) ==
    LET cooldown0 == actionMinCooldown(cfg.AdjustmentCooldown, decided.CooldownSec)
        cooldown == IF isDirectionalAction(decided.Type)
                       /\ isOppositeDirection(st2.LastAction.Type, decided.Type)
                    THEN cooldown0 * 2 ELSE cooldown0
        cooled == IF decided.Type # ActionHold /\ ~IsZero(st2.LastActionAt)
                     /\ now - st2.LastActionAt < cooldown
                  THEN Action(ActionHold, st2.CurrentConcurrency, "cooldown", 0)
                  ELSE decided
        target == boundedStepDelta(st2.CurrentConcurrency, cooled.Concurrency,
                                   cfg.MinConcurrency, cfg.MaxConcurrency, cfg.MaxConcurrencyStep)
        final == IF cooled.Type = ActionHold THEN cooled
                 ELSE IF target = st2.CurrentConcurrency
                 THEN Action(ActionHold, st2.CurrentConcurrency, "bounded by step/min-max", 0)
                 ELSE [cooled EXCEPT !.Concurrency = target]
        obs1 == [obs0 EXCEPT !.decided = decided, !.cooldown = cooldown,
                             !.replay = ReplayStep(obs0.replay, decided, now, cfg)]
    IN IF cooled.Type = ActionPause
       THEN LET st3 == [st2 EXCEPT !.LastActionAt = now]
                paused == AdapterPause(a1)
            IN /\ state' = st3
               /\ tracker' = added.t
               /\ adapter' = paused.a
               /\ epc' = "defer"
               /\ UNCHANGED lastDir
               /\ IF paused.err # ""
                  THEN /\ result' = [isNil |-> FALSE, State |-> st3, Reason |-> "failed_to_pause_workload"]
                       /\ lifecycle' = setLifecycle(LifecycleFailed, "failed_to_pause_workload", paused.err)
                       /\ runErr' = paused.err
                       /\ tick' = [obs1 EXCEPT !.outcome = "pause_failed", !.final = cooled,
                                               !.pauseCalled = TRUE,
                                               !.logged = {"failed to pause workload"}]
                  ELSE /\ result' = [isNil |-> FALSE, State |-> st3, Reason |-> cooled.Reason]
                       /\ lifecycle' = setLifecycle(LifecycleStopping, cooled.Reason, "")
                       /\ runErr' = ""
                       /\ tick' = [obs1 EXCEPT !.outcome = "pause", !.final = cooled,
                                               !.pauseCalled = TRUE,
                                               !.logged = {"workload_paused"}]
       ELSE IF final.Type = ActionHold
       THEN LET st3 == [st2 EXCEPT !.LastAction = final]
            IN /\ state' = st3
               /\ result' = [result EXCEPT !.State = st3]
               /\ tracker' = added.t
               /\ adapter' = a1
               /\ tick' = [obs1 EXCEPT !.outcome = "hold", !.final = final,
                                       !.logged = {"engine_tick"}]
               /\ UNCHANGED <<lifecycle, runErr, epc, lastDir>>
       ELSE \E outcome \in RestartOutcomes :
            LET restarted == AdapterRestart(a1, final.Concurrency, SpawnResult(outcome, cancelled))
                st3 == [st2 EXCEPT !.LastAction = final, !.LastActionAt = now]
                st4 == afterRestart(st3, restarted.err, final.Concurrency)
            IN /\ adapter' = restarted.a
               /\ UNCHANGED <<lifecycle, runErr, epc>>
               /\ IF restarted.err # ""
                  THEN /\ state' = st4
                       /\ UNCHANGED lastDir
                       /\ result' = [result EXCEPT !.State = st4]
                       /\ tracker' = added.t
                       /\ tick' = [obs1 EXCEPT !.outcome = "restart_failed", !.final = final,
                                               !.restartCalled = TRUE, !.restartsOk = FALSE,
                                               !.logged = {"engine_tick", "failed to restart workload"}]
                  ELSE /\ state' = st4
                       /\ lastDir' = [Type |-> final.Type, At |-> now]
                       /\ result' = [result EXCEPT !.State = st4]
                       /\ tracker' = TrackerReset(added.t)
                       /\ tick' = [obs1 EXCEPT !.outcome = "restart_ok", !.final = final,
                                               !.restartCalled = TRUE,
                                               !.logged = {"engine_tick", "workload_restarted"}]

\* e.controller.Decide: what the engine's controller may answer, as the
\* controller after the call and the action.  A controller known only through
\* the control.Controller interface may answer anything.
ControllerDecide(c, samples, through, st, now) ==
    IF c = NoController
    THEN {[c |-> c, action |-> a] : a \in ControllerActions(st.CurrentConcurrency)}
    ELSE {Decide(c, samples, through, st, now)}

maxTicksReached_atLimit(c, ticks) == c.MaxTicks > 0 /\ ticks >= c.MaxTicks

\* the test of the tick count that follows state.Ticks++
maxTicksReached(c, ticks) == c.MaxTicks > 0 /\ ticks > c.MaxTicks

\* case now := <-ticker.C: one whole pass of the loop body.  Collected is what
\* the telemetry collector may sample, Gaps the poll intervals that may have
\* passed since the tick before.
LoopBody(Collected, Gaps) ==
    /\ epc = "loop"
    /\ state.Ticks < MaxTicksBound
    /\ \E k \in Gaps :
        LET now == clock + k * cfg.PollInterval
            st1 == [state EXCEPT !.Ticks = @ + 1]
            obs0 == [NoTick EXCEPT !.n = st1.Ticks, !.now = now,
                                   !.prevConcurrency = state.CurrentConcurrency,
                                   !.prevLastActionAt = state.LastActionAt,
                                   !.prevLastAction = state.LastAction,
                                   !.prevDir = lastDir,
                                   !.childExited = adapter.cmd /\ ~adapter.childAlive /\ ~cancelled,
                                   !.ctxDone = cancelled,
                                   \* the replay of this run's log, fed the same
                                   \* actions and instants; whether every restart
                                   \* of the run has succeeded so far
                                   !.replay = IF state.Ticks = 0
                                              THEN [NoReplay EXCEPT !.currentConcurrency =
                                                                      state.CurrentConcurrency]
                                              ELSE tick.replay,
                                   !.restartsOk = state.Ticks = 0 \/ tick.restartsOk]
        IN /\ clock' = now
           /\ IF maxTicksReached(cfg, st1.Ticks)
              THEN /\ state' = st1
                   /\ result' = [isNil |-> FALSE, State |-> st1, Reason |-> "max_ticks_reached"]
                   /\ lifecycle' = setLifecycle(LifecycleStopping, "max_ticks_reached", "")
                   /\ runErr' = ""
                   /\ epc' = "defer"
                   /\ tick' = [obs0 EXCEPT !.outcome = "max_ticks"]
                   /\ UNCHANGED <<adapter, tracker, lastDir, ctl, telemetryWindow>>
              ELSE IF ~IsRunning(adapter)
              THEN /\ state' = st1
                   /\ result' = [isNil |-> FALSE, State |-> st1, Reason |-> "workload_exited_unexpectedly"]
                   /\ lifecycle' = setLifecycle(LifecycleFailed, "workload_exited_unexpectedly", "")
                   /\ runErr' = "workload_exited_unexpectedly"
                   /\ epc' = "defer"
                   /\ tick' = [obs0 EXCEPT !.outcome = "not_running"]
                   /\ UNCHANGED <<adapter, tracker, lastDir, ctl, telemetryWindow>>
              ELSE \E sampled \in Collected, written \in ByteDeltas :
                     LET ts == [sampled EXCEPT !.Timestamp = now]
                         window == appendTelemetry(telemetryWindow, ts)
                         \* the child's output since the previous reading
                         a1 == [adapter EXCEPT !.n = IF adapter.childAlive THEN @ + written ELSE @]
                         added == TrackerAdd(tracker, OutputBytes(a1), now)
                         estimated == Estimate(estimatorAfter(state.Estimate), window,
                                               added.t.samples)
                         st2 == [st1 EXCEPT !.LastTelemetryAt = now,
                                            !.LastThroughput = added.s,
                                            !.BaselineThroughput = added.t.baseline,
                                            !.ProcessPID = GetPID(a1),
                                            !.Estimate = estimated.estimate]
                         actionState == ControlState(st2.CurrentConcurrency, cfg.MinConcurrency,
                                                     cfg.MaxConcurrency, st2.BaselineThroughput,
                                                     st2.LastActionAt, ZeroEstimate)
                     IN \E d \in ControllerDecide(ctl, window, added.t.samples, actionState, now) :
                          /\ telemetryWindow' = window
                          /\ ctl' = d.c
                          /\ Actuate(now, st2, a1, added, obs0, d.action)
    /\ UNCHANGED <<cfg, cfg0, cancelled>>
    /\ UNCHANGED outsideEngine

\* a tick of an engine driven through the Controller interface
Tick == LoopBody(EngineTelemetry, TickGaps)

\* a variant whose deferred function sets the stopped phase whatever the phase is
EngineDeferred_alwaysStopped ==
    /\ epc = "defer"
    /\ adapter' = AdapterStop(adapter).a
    /\ lifecycle' = setLifecycle(LifecycleStopped, result.Reason, "")
    /\ epc' = "returned"
    /\ UNCHANGED <<cfg, cfg0, state, result, runErr, tracker, clock, cancelled, tick, lastDir, ctl,
                   telemetryWindow>>
    /\ UNCHANGED outsideEngine

\* the deferred function of Start: the final adapter.Stop and the stopped phase
EngineDeferred ==
    /\ epc = "defer"
    /\ adapter' = AdapterStop(adapter).a
    /\ lifecycle' = IF lifecycle.Phase # LifecycleFailed
                    THEN setLifecycle(LifecycleStopped, result.Reason, "")
                    ELSE lifecycle
    /\ epc' = "returned"
    /\ UNCHANGED <<cfg, cfg0, state, result, runErr, tracker, clock, cancelled, tick, lastDir, ctl,
                   telemetryWindow>>
    /\ UNCHANGED outsideEngine

\* the environment: the caller cancels the context (the child of a
\* CommandContext is killed with it)
CancelCtx ==
    /\ ~cancelled
    /\ epc # "returned"
    /\ cancelled' = TRUE
    /\ adapter' = ChildGone(adapter)
    /\ UNCHANGED <<cfg, cfg0, lifecycle, epc, state, result, runErr, tracker, clock, tick, lastDir, ctl,
                   telemetryWindow>>
    /\ UNCHANGED outsideEngine

\* the environment: the workload child process exits on its own
ChildExit ==
    /\ adapter.cmd
    /\ adapter.childAlive
    /\ adapter' = ChildGone(adapter)
    /\ UNCHANGED <<cfg, cfg0, lifecycle, epc, state, result, runErr, tracker, clock, cancelled, tick,
                   lastDir, ctl, telemetryWindow>>
    /\ UNCHANGED outsideEngine

\* engine.New(c, ...) with a fresh adapter and tracker, not started
EngineNew(c) ==
    /\ cfg = c
    /\ cfg0 = c
    /\ lifecycle = setLifecycle(LifecycleIdle, "", "")
    /\ epc = "new"
    /\ state = RunState(0)
    /\ result = NilResult
    /\ runErr = ""
    /\ adapter = NewXttsAdapter
    /\ tracker = NewTracker(c.ThroughputWindow, c.BaselineWindow)
    /\ clock = 0
    /\ cancelled = FALSE
    /\ tick = NoTick
    /\ lastDir = NoDirection
    /\ telemetryWindow = <<>>

\* no direct Decide call is made
PolicyIdle ==
    /\ pin = NoArguments
    /\ pout = ZeroAction
    /\ floorRun = 0
    /\ runBase = 0

\* the daemon has no session
\* no direct call on the adapter or the tracker was made
\* (before, trackerBefore: the object before the call; adds: Add calls since
\* the tracker was made or reset; seeded: RestoreBaseline called since then;
\* calls: calls made on the tracker; recorded: the samples the Add calls
\* returned since the tracker was made or reset; mu: the goroutine that holds
\* a.mu, 0 when it is free; th: the call each goroutine is making on the
\* adapter; mid: a call ran its body while a Restart of another goroutine was
\* between its stop and its start; stopPc, stopSnap, supSnap: where the
\* persistSessionState of stopSession is and the snapshots that stopSession and
\* the session goroutine have taken and not yet written; est, estBefore: the
\* StateEstimator called directly, now and before its latest call; raw: the
\* raw signals of that call; estimate: what it returned)
Goroutines == {1, 2}

IdleCall == [op |-> "", pc |-> "idle", concurrency |-> 0, outcome |-> "", ret |-> 0]

NoCall ==
    [op |-> "", err |-> "", before |-> NewXttsAdapter, trackerBefore |-> NewTracker(0, 0),
     sample |-> ZeroSample, total |-> 0, adds |-> 0, seeded |-> FALSE, calls |-> 0,
     recorded |-> <<>>, mu |-> 0, th |-> [g \in Goroutines |-> IdleCall], mid |-> FALSE,
     stopPc |-> "idle", stopSnap |-> NoCheckpoint, supSnap |-> NoCheckpoint,
     est |-> NewStateEstimator, estBefore |-> NewStateEstimator, raw |-> <<>>,
     estimate |-> NoEstimate]

CallIdle == call = NoCall

SessionIdle ==
    /\ sess = NoSession
    /\ spc = "none"
    /\ checkpoint = NoCheckpoint
    /\ hist = NoHistory

Init ==
    /\ \E c \in EngineConfigs : EngineNew(c)
    /\ ctl = NoController
    /\ PolicyIdle
    /\ SessionIdle
    /\ CallIdle

Next ==
    \/ EngineBegin
    \/ EngineStart
    \/ Tick
    \/ CtxDone
    \/ EngineDeferred
    \/ CancelCtx
    \/ ChildExit

vars == <<engineVars, policyVars, sessionVars, callVars>>

Spec == Init /\ [][Next]_vars

----------------------------------------------------------------------------
(* RuleController.Decide called directly (as the control tests do), on      *)
(* arguments that change between calls.                                     *)

\* how far the history of consecutive floor decisions is counted
RunCap == 4

\* the time.Now() of the calls
PolicyNow == 10 * Second

PolicyMaxAttempts == {1, 2}

\* ... and one with a step of 2, tripled below the slowdown fallback
PolicyControllers ==
    {NewRuleController(RuleConfig(78, 84, 70, 4, 2, n, 1)) : n \in PolicyMaxAttempts}
    \cup {NewRuleController([RuleConfig(78, 90, 70, 30, 1, 2, 2) EXCEPT
                               !.ThroughputSlowdownFloorRatio = 50,
                               !.ThroughputRecoveryStepMultiplier = 3])}

\* the newest sample of the window
PolicyLatestSamples ==
    { TelemetrySample(t.v, t.ok, p.v, p.ok, 0, FALSE) :
        t \in {[v |-> 0, ok |-> FALSE], [v |-> 60, ok |-> TRUE], [v |-> 80, ok |-> TRUE],
                [v |-> 84, ok |-> TRUE]},
        p \in {[v |-> 0, ok |-> FALSE], [v |-> 50, ok |-> TRUE], [v |-> 100, ok |-> TRUE]} }
    \cup { TelemetrySample(60, TRUE, 90, TRUE, 0, FALSE) }

\* the sample before it, if any
PolicyOlderSamples ==
    { TelemetrySample(60, TRUE, 100, TRUE, 0, FALSE),
      TelemetrySample(84, TRUE, 0, FALSE, 0, FALSE) }

PolicyWindows ==
    {<<>>} \cup {<<s>> : s \in PolicyLatestSamples}
           \cup {<<o, s>> : o \in PolicyOlderSamples, s \in PolicyLatestSamples}

\* throughput samples against a baseline of 10: floor 7, slowdown floor 5
PolicyThroughputs ==
    { <<>>,
      <<Sample(PolicyNow - Second, Rat(4, 1))>>,
      <<Sample(PolicyNow - Second, Rat(6, 1))>>,
      <<Sample(PolicyNow - Second, Rat(10, 1))>>,
      <<Sample(PolicyNow - 3 * Second, Rat(10, 1)), Sample(PolicyNow - Second, Rat(6, 1))>>,
      <<Sample(PolicyNow - Second, Rat(0, 1))>> }

PolicyEstimates == {ZeroEstimate, [ZeroEstimate EXCEPT !.TempSlopeCPerSec = 250, !.TempSlopeValid = TRUE]}

PolicyStates ==
    { ControlState(4, 1, 8, b, 0, e) : b \in {RatZero, Rat(10, 1)}, e \in PolicyEstimates }
    \cup { ControlState(8, 1, 10, Rat(10, 1), 0, ZeroEstimate) }

\* throughput is sustained below the floor with a positive average rate: a
\* baseline is learned, every sample of the floor window is below the floor
\* share of it and some sample of the throughput window has a positive rate
BelowFloorSustained(c, through, st, now) ==
    /\ st.BaselineThroughput.n > 0
    /\ \A i \in 1..Len(through) :
          through[i].Timestamp >= now - c.ThroughputFloorWindow =>
            through[i].Throughput.n * st.BaselineThroughput.d * 100
              < c.ThroughputFloorRatio * st.BaselineThroughput.n * through[i].Throughput.d
    /\ \E i \in 1..Len(through) :
          /\ through[i].Timestamp >= now - c.ThroughputWindow
          /\ through[i].Throughput.n > 0

\* no signal of a rule that precedes the throughput floor rule is present
NoEarlierSignal(c, samples, st) ==
    /\ \A i \in 1..Len(samples) :
          /\ samples[i].TempValid => samples[i].TempC < c.SoftTemp
          /\ samples[i].MemoryPressureValid => samples[i].MemoryPressure < c.MemoryPressureLimit
          /\ ~samples[i].ThrottleRiskValid
    /\ st.Estimate = ZeroEstimate

\* the arguments of the next call change: the telemetry window
PolicyTelemetry ==
    /\ \E w \in PolicyWindows : w # pin.samples /\ pin' = [pin EXCEPT !.samples = w]
    /\ pout' = ZeroAction
    /\ UNCHANGED <<ctl, floorRun, runBase>>
    /\ UNCHANGED <<cfg, cfg0, lifecycle, epc, state, result, runErr, adapter, tracker, clock,
                   cancelled, tick, lastDir, telemetryWindow>>
    /\ UNCHANGED <<sessionVars, callVars>>

\* the arguments of the next call change: the throughput samples
PolicyThroughput ==
    /\ \E t \in PolicyThroughputs : t # pin.through /\ pin' = [pin EXCEPT !.through = t]
    /\ pout' = ZeroAction
    /\ UNCHANGED <<ctl, floorRun, runBase>>
    /\ UNCHANGED <<cfg, cfg0, lifecycle, epc, state, result, runErr, adapter, tracker, clock,
                   cancelled, tick, lastDir, telemetryWindow>>
    /\ UNCHANGED <<sessionVars, callVars>>

\* the arguments of the next call change: the control.State
PolicyState ==
    /\ \E st \in PolicyStates : st # pin.st /\ pin' = [pin EXCEPT !.st = st]
    /\ pout' = ZeroAction
    /\ UNCHANGED <<ctl, floorRun, runBase>>
    /\ UNCHANGED <<cfg, cfg0, lifecycle, epc, state, result, runErr, adapter, tracker, clock,
                   cancelled, tick, lastDir, telemetryWindow>>
    /\ UNCHANGED <<sessionVars, callVars>>

\* one call of Decide on the current arguments
PolicyDecide ==
    LET d == Decide(ctl, pin.samples, pin.through, pin.st, PolicyNow)
        c == defaults(ctl)
        inRun == /\ BelowFloorSustained(c, pin.through, pin.st, PolicyNow)
                 /\ NoEarlierSignal(c, pin.samples, pin.st)
    IN /\ ctl' = d.c
       /\ pout' = d.action
       /\ floorRun' = IF ~inRun THEN 0 ELSE IF floorRun < RunCap THEN floorRun + 1 ELSE RunCap
       /\ runBase' = IF ~inRun THEN 0
                      ELSE IF floorRun = 0 THEN ctl.throughputRecoveryAttempts ELSE runBase
       /\ UNCHANGED pin
       /\ UNCHANGED <<cfg, cfg0, lifecycle, epc, state, result, runErr, adapter, tracker, clock,
                      cancelled, tick, lastDir, telemetryWindow>>
       /\ UNCHANGED <<sessionVars, callVars>>

InitPolicy ==
    /\ EngineNew(Config("run", Second, 1, 8, 4, 2 * Second, 1, 0, 0, ""))
    /\ ctl \in PolicyControllers
    /\ pin = [samples |-> <<>>, through |-> <<>>, st |-> ControlState(4, 1, 8, RatZero, 0, ZeroEstimate)]
    /\ pout = ZeroAction
    /\ floorRun = 0
    /\ runBase = 0
    /\ SessionIdle
    /\ CallIdle

NextPolicy ==
    \/ PolicyTelemetry
    \/ PolicyThroughput
    \/ PolicyState
    \/ PolicyDecide

SpecPolicy == InitPolicy /\ [][NextPolicy]_vars

----------------------------------------------------------------------------
(* RuleController.Decide called on one set of arguments, drawn from every   *)
(* combination of signals the rules look at, and called again on the same   *)
(* arguments.                                                               *)

\* soft 78 with a hysteresis of 2, hard 84, floor 0.7 of the baseline, two
\* recovery attempts; every other threshold at its default
RulesControllers ==
    {NewRuleController([RuleConfig(78, 84, 70, 4, 2, 2, 1) EXCEPT !.TempHysteresisC = 2])}

\* the newest sample: temperature, memory pressure and throttle risk are
\* missing, low, close to their limit, at it or beyond
RulesLatestSamples ==
    { TelemetrySample(t.v, t.ok, p.v, p.ok, r.v, r.ok) :
        t \in {[v |-> 0, ok |-> FALSE], [v |-> 60, ok |-> TRUE], [v |-> 77, ok |-> TRUE],
                [v |-> 80, ok |-> TRUE], [v |-> 84, ok |-> TRUE]},
        p \in {[v |-> 0, ok |-> FALSE], [v |-> 50, ok |-> TRUE], [v |-> 88, ok |-> TRUE],
                [v |-> 90, ok |-> TRUE], [v |-> 100, ok |-> TRUE]},
        r \in {[v |-> 0, ok |-> FALSE], [v |-> 70, ok |-> TRUE], [v |-> 90, ok |-> TRUE]} }

\* the sample before it, if any: a cooler GPU
RulesOlderSamples == { TelemetrySample(70, TRUE, 0, FALSE, 0, FALSE) }

\* an older sample precedes a newest one without a temperature or at the
\* soft limit
RulesWindows ==
    {<<>>} \cup {<<s>> : s \in RulesLatestSamples}
           \cup {<<o, s>> : o \in RulesOlderSamples,
                            s \in {l \in RulesLatestSamples : ~l.TempValid \/ l.TempC = 80}}

\* throughput samples against a baseline of 10: slowdown floor 5, floor 7,
\* gate of the scale-up 7.5
RulesThroughputs ==
    { <<>>,
      <<Sample(PolicyNow - Second, Rat(4, 1))>>,
      <<Sample(PolicyNow - Second, Rat(6, 1))>>,
      <<Sample(PolicyNow - Second, Rat(72, 10))>>,
      <<Sample(PolicyNow - Second, Rat(10, 1))>>,
      <<Sample(PolicyNow - 2 * Second, Rat(10, 1)), Sample(PolicyNow - Second, Rat(6, 1))>>,
      <<Sample(PolicyNow - Second, Rat(0, 1))>> }

RulesEstimates ==
    { [TempSlopeCPerSec |-> s.v, TempSlopeValid |-> s.ok,
       ThroughputTrend |-> t.v, ThroughputTrendValid |-> t.ok,
       ThrottleRiskScore |-> r.v, ThrottleRiskScoreValid |-> r.ok,
       StabilityIndex |-> x.v, StabilityIndexValid |-> x.ok,
       Confidence |-> k.v, ConfidenceValid |-> k.ok] :
        s \in {[v |-> 0, ok |-> FALSE], [v |-> 250, ok |-> TRUE]},
        t \in {[v |-> 0, ok |-> FALSE], [v |-> -30, ok |-> TRUE]},
        r \in {[v |-> 0, ok |-> FALSE], [v |-> 90, ok |-> TRUE]},
        x \in {[v |-> 0, ok |-> FALSE], [v |-> 30, ok |-> TRUE], [v |-> 80, ok |-> TRUE]},
        k \in {[v |-> 0, ok |-> FALSE], [v |-> 20, ok |-> TRUE], [v |-> 90, ok |-> TRUE]} }

\* below the maximum or at it; without a baseline the throughput samples
\* play no part
RulesStates ==
    { ControlState(current, 1, 8, RatZero, 0, e) : current \in {4, 8}, e \in RulesEstimates }

RulesLoadedStates ==
    { ControlState(current, 1, 8, Rat(10, 1), 0, e) : current \in {4, 8}, e \in RulesEstimates }

InitRules ==
    /\ EngineNew(Config("run", Second, 1, 8, 4, 2 * Second, 1, 0, 0, ""))
    /\ ctl \in RulesControllers
    /\ \E w \in RulesWindows :
          \/ \E st \in RulesStates :
                pin = [samples |-> w, through |-> <<Sample(PolicyNow - Second, Rat(10, 1))>>,
                       st |-> st]
          \/ \E t \in RulesThroughputs, st \in RulesLoadedStates :
                pin = [samples |-> w, through |-> t, st |-> st]
    /\ pout = ZeroAction
    /\ floorRun = 0
    /\ runBase = 0
    /\ SessionIdle
    /\ CallIdle

NextRules == PolicyDecide

SpecRules == InitRules /\ [][NextRules]_vars

----------------------------------------------------------------------------
(* daemon: startSession, the session goroutine and stopSession.  The model  *)
(* follows one session of the server.                                       *)

defaultRecoveryMaxRetries == 1

defaultRecoveryCooldownSec == 1

maxSessionErrors == 20

\* a StartRequest with the fields left out at their zero value; ratios in
\* hundredths, Mode already trimmed and lower-cased
StartRequest(mode, command, path, poll, minC, maxC, startC, cooldown, maxTicks, maxRetries, wait) ==
    [Mode |-> mode, Command |-> command, CheckpointPath |-> path,
     PollIntervalSec |-> poll, SoftTemp |-> 0, HardTemp |-> 0,
     MinConcurrency |-> minC, MaxConcurrency |-> maxC, StartConcurrency |-> startC,
     ThroughputFloorRatio |-> 0, ThroughputSlowdownFloorRatio |-> 0, TempHysteresisC |-> 0,
     ThroughputRecoveryMargin |-> 0, ThroughputRecoveryMaxAttempts |-> 0,
     ThroughputRecoveryStepMultiplier |-> 0, MemoryPressureLimit |-> 0,
     ThrottleRiskLimit |-> 0, TelemetryLogPath |-> "", AdjustmentCooldownSec |-> cooldown,
     MaxConcurrencyStep |-> 0, BaselineWindowSec |-> 0, ThroughputWindowSec |-> 0,
     ThroughputFloorWindowSec |-> 0, InitialBaselineThroughput |-> RatZero,
     MaxTicks |-> maxTicks, RecoveryMaxRetries |-> maxRetries,
     RecoveryCooldownSec |-> wait]

normalizeStartRequest(req) ==
    LET r1 == [req EXCEPT
                 !.Mode = IF @ # SessionModeStateful THEN SessionModeStateless ELSE @,
                 !.TempHysteresisC = IF @ <= 0 THEN 2 ELSE @,
                 !.ThroughputRecoveryMargin = IF @ <= 0 THEN 5 ELSE @,
                 !.MemoryPressureLimit = IF @ <= 0 THEN 90 ELSE @,
                 !.ThrottleRiskLimit = IF @ <= 0 THEN 85 ELSE @,
                 !.TelemetryLogPath = IF @ = "" THEN "guardian.telemetry.log" ELSE @,
                 !.PollIntervalSec = IF @ <= 0 THEN 2 ELSE @,
                 !.SoftTemp = IF @ <= 0 THEN 78 ELSE @,
                 !.HardTemp = IF @ <= 0 THEN 84 ELSE @,
                 !.MinConcurrency = IF @ <= 0 THEN 1 ELSE @]
        r2 == [r1 EXCEPT !.MaxConcurrency = IF @ <= 0 THEN r1.MinConcurrency ELSE @]
        r3 == [r2 EXCEPT !.MinConcurrency = IF @ > r2.MaxConcurrency THEN r2.MaxConcurrency ELSE @]
        r4 == [r3 EXCEPT !.StartConcurrency = IF @ < r3.MinConcurrency THEN r3.MinConcurrency ELSE @]
        r5 == [r4 EXCEPT !.StartConcurrency = IF @ > r4.MaxConcurrency THEN r4.MaxConcurrency ELSE @,
                         !.ThroughputFloorRatio = IF @ <= 0 THEN 70 ELSE @]
        r6 == [r5 EXCEPT
                 !.ThroughputSlowdownFloorRatio =
                     IF @ <= 0 \/ @ > r5.ThroughputFloorRatio THEN 50 ELSE @,
                 !.AdjustmentCooldownSec = IF @ <= 0 THEN 10 ELSE @,
                 !.MaxConcurrencyStep = IF @ <= 0 THEN 1 ELSE @,
                 !.ThroughputRecoveryMaxAttempts = IF @ <= 0 THEN 3 ELSE @,
                 !.ThroughputRecoveryStepMultiplier = IF @ <= 1 THEN 2 ELSE @,
                 !.BaselineWindowSec = IF @ <= 0 THEN 120 ELSE @,
                 !.ThroughputWindowSec = IF @ <= 0 THEN 30 ELSE @,
                 !.ThroughputFloorWindowSec = IF @ <= 0 THEN 30 ELSE @,
                 !.MaxTicks = IF @ < 0 THEN 0 ELSE @,
                 !.RecoveryMaxRetries = IF @ <= 0 THEN defaultRecoveryMaxRetries ELSE @,
                 !.RecoveryCooldownSec = IF @ <= 0 THEN defaultRecoveryCooldownSec ELSE @]
    IN r6

\* cp is the content of the checkpoint file (isNil: it cannot be read)
applyStatefulCheckpointDefaults(req, cp) ==
    IF req.Mode # SessionModeStateful \/ req.CheckpointPath = "" \/ cp.isNil THEN req
    ELSE [req EXCEPT
            !.StartConcurrency =
                IF cp.CurrentConcurrency > 0
                THEN clampInt(cp.CurrentConcurrency, req.MinConcurrency, req.MaxConcurrency)
                ELSE @,
            !.InitialBaselineThroughput =
                IF RatPositive(cp.BaselineThroughput) THEN cp.BaselineThroughput ELSE @]

StartRequestToEngineConfig(req) ==
    [Command |-> req.Command, PollInterval |-> req.PollIntervalSec * Second,
     SoftTemp |-> req.SoftTemp, HardTemp |-> req.HardTemp,
     MinConcurrency |-> req.MinConcurrency, MaxConcurrency |-> req.MaxConcurrency,
     StartConcurrency |-> req.StartConcurrency,
     ThroughputFloorRatio |-> req.ThroughputFloorRatio,
     AdjustmentCooldown |-> req.AdjustmentCooldownSec * Second,
     ThroughputWindow |-> req.ThroughputWindowSec * Second,
     ThroughputFloorWindow |-> req.ThroughputFloorWindowSec * Second,
     BaselineWindow |-> req.BaselineWindowSec * Second,
     MaxConcurrencyStep |-> req.MaxConcurrencyStep, MaxTicks |-> req.MaxTicks,
     TelemetryLogPath |-> req.TelemetryLogPath,
     InitialBaselineThroughput |-> req.InitialBaselineThroughput]

\* the control.RuleConfig startSession builds from the request
SessionRuleConfig(req) ==
    [RuleConfig(req.SoftTemp, req.HardTemp, req.ThroughputFloorRatio, req.ThroughputWindowSec,
                req.ThroughputFloorWindowSec, req.ThroughputRecoveryMaxAttempts,
                req.MaxConcurrencyStep)
     EXCEPT !.ThroughputSlowdownFloorRatio = req.ThroughputSlowdownFloorRatio,
            !.ThroughputRecoveryStepMultiplier = req.ThroughputRecoveryStepMultiplier,
            !.TempHysteresisC = req.TempHysteresisC,
            !.ThroughputRecoveryMargin = req.ThroughputRecoveryMargin,
            !.MemoryPressureLimit = req.MemoryPressureLimit,
            !.ThrottleRiskLimit = req.ThrottleRiskLimit]

\* the checkpoint path the session keeps: none unless stateful, generated when
\* the request names none
ensureModeDefaults(req) ==
    IF req.Mode # SessionModeStateful THEN ""
    ELSE IF req.CheckpointPath = "" THEN "/tmp/guardian-session.json"
    ELSE req.CheckpointPath

appendError(entries, entry) ==
    LET all == Append(entries, entry)
    IN IF Len(all) <= maxSessionErrors THEN all
       ELSE SubSeq(all, Len(all) - maxSessionErrors + 1, Len(all))

isRecoverableFailure_anyError(res, err) == err # ""

\* isRecoverableFailure(result, err); result is an EngineResult record with isNil
isRecoverableFailure(res, err) ==
    IF err = "" THEN FALSE
    ELSE ~res.isNil /\ res.Reason = "workload_exited_unexpectedly"

sessionSnapshot(s) ==
    [isNil |-> FALSE, Running |-> s.running, Goal |-> s.goal, Retries |-> s.retries,
     CurrentConcurrency |-> IF s.result.isNil THEN 0 ELSE s.result.State.CurrentConcurrency,
     BaselineThroughput |-> IF s.result.isNil THEN RatZero ELSE s.result.State.BaselineThroughput,
     LastReason |-> IF s.result.isNil THEN "" ELSE s.result.Reason]

\* persistSessionState: the content of the checkpoint file afterwards
persistSessionState(s, cp) ==
    IF ~s.exists \/ s.mode # SessionModeStateful \/ s.checkpointPath = "" THEN cp
    ELSE sessionSnapshot(s)

\* the requests the daemon is sent
SessionRequests ==
    { StartRequest("", "run", "", 1, 1, 4, 2, 1, 0, 0, 0),
      StartRequest(SessionModeStateful, "run", "checkpoint.json", 1, 1, 3, 2, 1, 2, 2, 1),
      StartRequest("", "", "", 1, 1, 4, 2, 1, 0, 0, 0) }

\* what the collector samples during a session: a healthy GPU, a warmer one
\* below the soft temperature, or one at the hard temperature
SessionTelemetry ==
    { TelemetrySample(60, TRUE, 50, TRUE, 0, FALSE),
      TelemetrySample(70, TRUE, 50, TRUE, 0, FALSE),
      TelemetrySample(84, TRUE, 50, TRUE, 0, FALSE) }

\* the ticks of a session are delivered on time
SessionTickGaps == {1}

\* startSession up to the start of the session goroutine
StartSession ==
    /\ \E req0 \in SessionRequests, loggerOk \in BOOLEAN :
        LET req == applyStatefulCheckpointDefaults(normalizeStartRequest(req0), checkpoint)
            created == [NoSession EXCEPT
                          !.exists = TRUE, !.running = TRUE, !.goal = SessionGoalRun,
                          !.mode = req.Mode, !.checkpointPath = ensureModeDefaults(req),
                          !.recoveryMaxRetries = req.RecoveryMaxRetries,
                          !.recoveryCooldown = req.RecoveryCooldownSec * Second,
                          !.engineCfg = StartRequestToEngineConfig(req)]
        IN IF req.Command = ""
           THEN /\ hist.startErr # "command is required"
                /\ hist' = [hist EXCEPT !.startErr = "command is required"]
                /\ UNCHANGED <<sess, spc, checkpoint, ctl, tracker, cancelled>>
           ELSE IF sess.exists /\ sess.running
           THEN /\ hist.startErr # "session already running"
                /\ hist' = [hist EXCEPT !.startErr = "session already running"]
                /\ UNCHANGED <<sess, spc, checkpoint, ctl, tracker, cancelled>>
           ELSE IF ~loggerOk
           THEN /\ hist.startErr # "open log file"
                /\ hist' = [hist EXCEPT !.startErr = "open log file"]
                /\ UNCHANGED <<sess, spc, checkpoint, ctl, tracker, cancelled>>
           ELSE /\ ~sess.exists
                /\ sess' = created
                /\ ctl' = NewRuleController(SessionRuleConfig(req))
                /\ tracker' = NewTracker(req.ThroughputWindowSec * Second,
                                         req.BaselineWindowSec * Second)
                /\ cancelled' = FALSE
                /\ checkpoint' = persistSessionState(created, checkpoint)
                /\ spc' = "top"
                /\ hist' = [hist EXCEPT !.startErr = ""]
    /\ UNCHANGED <<cfg, cfg0, lifecycle, epc, state, result, runErr, adapter, clock, tick, lastDir,
                   telemetryWindow>>
    /\ UNCHANGED <<policyVars, callVars>>

\* the head of the goroutine's loop: leave it when the session's context is
\* done, else engine.New with a new adapter and the session's controller and
\* tracker
SupervisorTop ==
    /\ spc = "top"
    /\ IF cancelled
       THEN /\ spc' = "exit"
            /\ UNCHANGED <<engineVars, hist>>
       ELSE /\ spc' = "run"
            /\ cfg' = sess.engineCfg
            /\ cfg0' = sess.engineCfg
            /\ lifecycle' = setLifecycle(LifecycleIdle, "", "")
            /\ epc' = "new"
            /\ state' = RunState(0)
            /\ result' = NilResult
            /\ runErr' = ""
            /\ adapter' = NewXttsAdapter
            /\ tick' = NoTick
            /\ lastDir' = NoDirection
            /\ telemetryWindow' = <<>>
            /\ hist' = [hist EXCEPT !.runs = @ + 1]
            /\ UNCHANGED <<tracker, clock, cancelled, ctl>>
    /\ UNCHANGED <<sess, checkpoint>>
    /\ UNCHANGED <<policyVars, callVars>>

\* one engine tick of the session
SessionTick == LoopBody(SessionTelemetry, SessionTickGaps)

retriesExhausted_strict(s) == s.retries > s.recoveryMaxRetries

\* the retry test of the goroutine
retriesExhausted(s) == s.retries >= s.recoveryMaxRetries

\* the goroutine from the return of eng.Start to the unlock: what the
\* session records of the run and which way it goes on
SupervisorAfterRun ==
    /\ spc = "run"
    /\ epc = "returned"
    /\ LET s1 == [sess EXCEPT !.result = result, !.lastErr = "", !.goal = SessionGoalStopped]
           s2 == IF ~result.isNil
                 THEN [s1 EXCEPT !.lastAction = result.State.LastAction,
                                 !.lastErr = result.Reason]
                 ELSE s1
           s3 == IF runErr # ""
                 THEN [s2 EXCEPT !.lastErr = runErr, !.errors = appendError(@, runErr)]
                 ELSE s2
           ended == [reason |-> IF result.isNil THEN "" ELSE result.Reason, err |-> runErr,
                     retries |-> sess.retries]
           h1 == [hist EXCEPT !.ended = Append(@, ended)]
       IN IF runErr = ""
          THEN /\ sess' = [s3 EXCEPT
                             !.running = FALSE,
                             !.goal = IF ~result.isNil
                                         /\ result.State.LastAction.Type = ActionPause
                                      THEN SessionGoalPaused ELSE SessionGoalStopped,
                             !.next = "return"]
               /\ hist' = h1
               /\ UNCHANGED adapter
          ELSE IF ~isRecoverableFailure(result, runErr)
          THEN /\ sess' = [s3 EXCEPT !.running = FALSE, !.goal = SessionGoalStopped,
                                     !.next = "return"]
               /\ hist' = h1
               /\ UNCHANGED adapter
          ELSE IF retriesExhausted(s3)
          THEN /\ sess' = [s3 EXCEPT !.running = FALSE, !.goal = SessionGoalPaused,
                                     !.next = "return"]
               /\ adapter' = AdapterPause(adapter).a
               /\ hist' = [h1 EXCEPT !.pauseCalls = @ + 1]
          ELSE /\ sess' = [s3 EXCEPT !.retries = @ + 1, !.goal = SessionGoalRecovering,
                                     !.next = "wait"]
               /\ hist' = h1
               /\ UNCHANGED adapter
    /\ spc' = "persist"
    /\ UNCHANGED <<cfg, cfg0, lifecycle, epc, state, result, runErr, tracker, clock, cancelled, tick,
                   lastDir, ctl, telemetryWindow>>
    /\ UNCHANGED checkpoint
    /\ UNCHANGED <<policyVars, callVars>>

\* persistSessionState after the unlock, then return or wait
SupervisorPersist ==
    /\ spc = "persist"
    /\ checkpoint' = persistSessionState(sess, checkpoint)
    /\ spc' = IF sess.next = "wait" THEN "wait" ELSE "done"
    /\ UNCHANGED <<sess, hist>>
    /\ UNCHANGED engineVars
    /\ UNCHANGED <<policyVars, callVars>>

\* waitWithContext(runCtx, recoveryCooldown): the timer fires and the loop
\* goes round, or the context is done and the goroutine returns
SupervisorWait ==
    /\ spc = "wait"
    /\ \E timerFirst \in BOOLEAN :
        IF sess.recoveryCooldown <= 0 \/ (timerFirst \/ ~cancelled)
        THEN /\ spc' = "top"
             /\ clock' = clock + sess.recoveryCooldown
        ELSE /\ spc' = "done"
             /\ UNCHANGED clock
    /\ UNCHANGED <<cfg, cfg0, lifecycle, epc, state, result, runErr, adapter, tracker, cancelled, tick,
                   lastDir, ctl, telemetryWindow>>
    /\ UNCHANGED <<sess, checkpoint, hist>>
    /\ UNCHANGED <<policyVars, callVars>>

\* after the loop was left by break
SupervisorExit ==
    /\ spc = "exit"
    /\ sess' = [sess EXCEPT !.running = FALSE, !.goal = SessionGoalStopped, !.next = "return"]
    /\ spc' = "persist"
    /\ UNCHANGED <<checkpoint, hist>>
    /\ UNCHANGED engineVars
    /\ UNCHANGED <<policyVars, callVars>>

\* stopSession(id) of the session, with its persistSessionState
StopSession ==
    /\ sess.exists
    /\ sess.goal # SessionGoalPaused \/ (sess.running /\ ~cancelled)
    /\ sess' = [sess EXCEPT !.goal = SessionGoalPaused]
    /\ checkpoint' = persistSessionState(sess', checkpoint)
    /\ IF sess.running
       THEN /\ cancelled' = TRUE
            /\ adapter' = ChildGone(adapter)
       ELSE UNCHANGED <<cancelled, adapter>>
    /\ UNCHANGED <<cfg, cfg0, lifecycle, epc, state, result, runErr, tracker, clock, tick, lastDir, ctl,
                   telemetryWindow>>
    /\ UNCHANGED <<spc, hist>>
    /\ UNCHANGED <<policyVars, callVars>>

\* no engine was built
NoEngine ==
    /\ cfg = NoSession.engineCfg
    /\ cfg0 = NoSession.engineCfg
    /\ lifecycle = setLifecycle(LifecycleIdle, "", "")
    /\ epc = "none"
    /\ state = RunState(0)
    /\ result = NilResult
    /\ runErr = ""
    /\ adapter = NewXttsAdapter
    /\ tracker = NewTracker(0, 0)
    /\ clock = 0
    /\ cancelled = FALSE
    /\ tick = NoTick
    /\ lastDir = NoDirection
    /\ telemetryWindow = <<>>
    /\ ctl = NoController

\* the daemon before any session is started
InitDaemon ==
    /\ NoEngine
    /\ PolicyIdle
    /\ SessionIdle
    /\ CallIdle

NextDaemon ==
    \/ StartSession
    \/ SupervisorTop
    \/ EngineBegin
    \/ EngineStart
    \/ SessionTick
    \/ CtxDone
    \/ EngineDeferred
    \/ ChildExit
    \/ SupervisorAfterRun
    \/ SupervisorPersist
    \/ SupervisorWait
    \/ SupervisorExit
    \/ StopSession

SpecDaemon == InitDaemon /\ [][NextDaemon]_vars

----------------------------------------------------------------------------
(* The daemon with persistSessionState as the two steps it is: the snapshot *)
(* taken under s.mu, and os.WriteFile after the unlock.  stopSession runs   *)
(* on the goroutine of its request, beside the session goroutine.           *)

\* the session is one persistSessionState writes a checkpoint for
Persisted(s) == s.exists /\ s.mode = SessionModeStateful /\ s.checkpointPath # ""

\* the goroutine's persistSessionState up to s.mu.Unlock()
SupervisorSnapshot ==
    /\ spc = "persist"
    /\ IF Persisted(sess)
       THEN /\ spc' = "write"
            /\ call' = [call EXCEPT !.supSnap = sessionSnapshot(sess)]
       ELSE /\ spc' = IF sess.next = "wait" THEN "wait" ELSE "done"
            /\ UNCHANGED call
    /\ UNCHANGED <<sess, checkpoint, hist>>
    /\ UNCHANGED engineVars
    /\ UNCHANGED policyVars

\* os.WriteFile opens the file with O_TRUNC: until the content is written the
\* file is empty, which readSessionCheckpoint cannot decode
TruncatedFile == NoCheckpoint

\* json.Marshal of the goroutine's snapshot and the open of os.WriteFile
SupervisorTruncate ==
    /\ spc = "write"
    /\ checkpoint' = TruncatedFile
    /\ spc' = "flush"
    /\ UNCHANGED <<sess, hist>>
    /\ UNCHANGED engineVars
    /\ UNCHANGED <<policyVars, callVars>>

\* the write and close of os.WriteFile in the goroutine, then return or wait
SupervisorWrite ==
    /\ spc = "flush"
    /\ checkpoint' = call.supSnap
    /\ call' = [call EXCEPT !.supSnap = NoCheckpoint]
    /\ spc' = IF sess.next = "wait" THEN "wait" ELSE "done"
    /\ UNCHANGED <<sess, hist>>
    /\ UNCHANGED engineVars
    /\ UNCHANGED policyVars

\* stopSession(id) from s.mu.Lock() to s.mu.Unlock()
StopRequest ==
    /\ sess.exists
    /\ call.stopPc = "idle"
    /\ sess.goal # SessionGoalPaused \/ (sess.running /\ ~cancelled)
    /\ sess' = [sess EXCEPT !.goal = SessionGoalPaused]
    /\ call' = [call EXCEPT !.stopPc = "persist"]
    /\ IF sess.running
       THEN /\ cancelled' = TRUE
            /\ adapter' = ChildGone(adapter)
       ELSE UNCHANGED <<cancelled, adapter>>
    /\ UNCHANGED <<cfg, cfg0, lifecycle, epc, state, result, runErr, tracker, clock, tick, lastDir, ctl,
                   telemetryWindow>>
    /\ UNCHANGED <<spc, checkpoint, hist>>
    /\ UNCHANGED policyVars

\* stopSession's persistSessionState up to s.mu.Unlock()
StopSnapshot ==
    /\ call.stopPc = "persist"
    /\ call' = IF Persisted(sess)
               THEN [call EXCEPT !.stopPc = "write", !.stopSnap = sessionSnapshot(sess)]
               ELSE [call EXCEPT !.stopPc = "idle"]
    /\ UNCHANGED engineVars
    /\ UNCHANGED <<policyVars, sessionVars>>

\* json.Marshal of stopSession's snapshot and the open of os.WriteFile
StopTruncate ==
    /\ call.stopPc = "write"
    /\ checkpoint' = TruncatedFile
    /\ call' = [call EXCEPT !.stopPc = "flush"]
    /\ UNCHANGED <<sess, spc, hist>>
    /\ UNCHANGED engineVars
    /\ UNCHANGED policyVars

\* the write and close of os.WriteFile in stopSession
StopWrite ==
    /\ call.stopPc = "flush"
    /\ checkpoint' = call.stopSnap
    /\ call' = [call EXCEPT !.stopPc = "idle", !.stopSnap = NoCheckpoint]
    /\ UNCHANGED <<sess, spc, hist>>
    /\ UNCHANGED engineVars
    /\ UNCHANGED policyVars

NextCheckpoint ==
    \/ StartSession
    \/ SupervisorTop
    \/ EngineBegin
    \/ EngineStart
    \/ SessionTick
    \/ CtxDone
    \/ EngineDeferred
    \/ ChildExit
    \/ SupervisorAfterRun
    \/ SupervisorSnapshot
    \/ SupervisorTruncate
    \/ SupervisorWrite
    \/ SupervisorWait
    \/ SupervisorExit
    \/ StopRequest
    \/ StopSnapshot
    \/ StopTruncate
    \/ StopWrite

SpecCheckpoint == InitDaemon /\ [][NextCheckpoint]_vars

----------------------------------------------------------------------------
(* The adapter called directly: any sequence of its methods on one          *)
(* XTTSAdapter.  Every method holds a.mu, so concurrent calls are a         *)
(* sequence of whole calls.                                                 *)

\* how many children the calls may spawn
MaxSpawns == 3

AdapterConcurrencies == {0, 2, 3}

Called(op, res) == [NoCall EXCEPT !.op = op, !.err = res.err, !.before = adapter]

AdapterCallStart ==
    /\ adapter.spawned < MaxSpawns
    /\ \E concurrency \in AdapterConcurrencies, outcome \in SpawnOutcomes :
         LET res == AdapterStart(adapter, "run", concurrency, outcome)
         IN /\ adapter' = res.a
            /\ call' = Called("Start", res)
    /\ UNCHANGED <<cfg, cfg0, lifecycle, epc, state, result, runErr, tracker, clock, cancelled, tick,
                   lastDir, ctl, telemetryWindow>>
    /\ UNCHANGED <<policyVars, sessionVars>>

AdapterCallRestart ==
    /\ adapter.spawned < MaxSpawns
    /\ \E concurrency \in AdapterConcurrencies, outcome \in SpawnOutcomes :
         LET res == AdapterRestart(adapter, concurrency, outcome)
         IN /\ adapter' = res.a
            /\ call' = Called("Restart", res)
    /\ UNCHANGED <<cfg, cfg0, lifecycle, epc, state, result, runErr, tracker, clock, cancelled, tick,
                   lastDir, ctl, telemetryWindow>>
    /\ UNCHANGED <<policyVars, sessionVars>>

AdapterCallResume ==
    /\ adapter.spawned < MaxSpawns
    /\ \E outcome \in SpawnOutcomes :
         LET res == AdapterResume(adapter, outcome)
         IN /\ adapter' = res.a
            /\ call' = Called("Resume", res)
    /\ UNCHANGED <<cfg, cfg0, lifecycle, epc, state, result, runErr, tracker, clock, cancelled, tick,
                   lastDir, ctl, telemetryWindow>>
    /\ UNCHANGED <<policyVars, sessionVars>>

AdapterCallStop ==
    /\ LET res == AdapterStop(adapter)
       IN /\ adapter' = res.a
          /\ call' = Called("Stop", res)
    /\ UNCHANGED <<cfg, cfg0, lifecycle, epc, state, result, runErr, tracker, clock, cancelled, tick,
                   lastDir, ctl, telemetryWindow>>
    /\ UNCHANGED <<policyVars, sessionVars>>

AdapterCallPause ==
    /\ LET res == AdapterPause(adapter)
       IN /\ adapter' = res.a
          /\ call' = Called("Pause", res)
    /\ UNCHANGED <<cfg, cfg0, lifecycle, epc, state, result, runErr, tracker, clock, cancelled, tick,
                   lastDir, ctl, telemetryWindow>>
    /\ UNCHANGED <<policyVars, sessionVars>>

AdapterCallUpdateParameters ==
    /\ \E concurrency \in AdapterConcurrencies :
         LET res == AdapterUpdateParameters(adapter, concurrency)
         IN /\ adapter' = res.a
            /\ call' = Called("UpdateParameters", res)
    /\ UNCHANGED <<cfg, cfg0, lifecycle, epc, state, result, runErr, tracker, clock, cancelled, tick,
                   lastDir, ctl, telemetryWindow>>
    /\ UNCHANGED <<policyVars, sessionVars>>

InitAdapter ==
    /\ NoEngine
    /\ PolicyIdle
    /\ SessionIdle
    /\ CallIdle

NextAdapter ==
    \/ AdapterCallStart
    \/ AdapterCallRestart
    \/ AdapterCallResume
    \/ AdapterCallStop
    \/ AdapterCallPause
    \/ AdapterCallUpdateParameters
    \/ ChildExit

SpecAdapter == InitAdapter /\ [][NextAdapter]_vars

----------------------------------------------------------------------------
(* The adapter called by two goroutines at once.  Each call waits for a.mu, *)
(* runs its body and unlocks on return; the body of Restart is two steps,   *)
(* stopLocked and startLocked, with the stopped adapter in between.         *)

LockedOps == {"Start", "Restart", "Stop", "Pause", "IsRunning", "GetPID", "OutputBytes"}

\* how many children the two goroutines may spawn
MaxLockedSpawns == 2

LockedConcurrencies == {0, 3}

LockedOutcomes == {"ok", "spawn_err"}

muFree_unlocked(mu) == TRUE

\* a.mu.Lock() returns only when no goroutine holds the mutex
muFree(mu) == mu = 0

\* another goroutine's Restart has stopped the old child and not yet started
\* the new one
RestartHalfDone(g) ==
    \E o \in Goroutines \ {g} : call.th[o].op = "Restart" /\ call.th[o].pc = "stopped"

\* goroutine g calls a method of the adapter and comes to its a.mu.Lock()
LockedCall ==
    /\ \E g \in Goroutines, op \in LockedOps, concurrency \in LockedConcurrencies,
          outcome \in LockedOutcomes :
         /\ call.th[g].pc = "idle"
         /\ call' = [call EXCEPT !.th[g] =
                        [IdleCall EXCEPT !.op = op, !.pc = "lock",
                            !.concurrency = IF op \in {"Start", "Restart"} THEN concurrency ELSE 0,
                            !.outcome = IF op \in {"Start", "Restart"} THEN outcome ELSE ""]]
    /\ UNCHANGED engineVars
    /\ UNCHANGED <<policyVars, sessionVars>>

\* a.mu.Lock() of goroutine g returns
LockedAcquire ==
    /\ \E g \in Goroutines :
         /\ call.th[g].pc = "lock"
         /\ muFree(call.mu)
         /\ call' = [call EXCEPT !.mu = g, !.th[g].pc = "body"]
    /\ UNCHANGED engineVars
    /\ UNCHANGED <<policyVars, sessionVars>>

\* a spawn beyond MaxLockedSpawns children fails
BoundedSpawn(outcome) == IF adapter.spawned >= MaxLockedSpawns THEN "spawn_err" ELSE outcome

\* the body of a call other than Restart, and the deferred a.mu.Unlock()
LockedBody ==
    /\ \E g \in Goroutines :
         LET c == call.th[g]
             res == CASE c.op = "Start" ->
                           AdapterStart(adapter, "run", c.concurrency, BoundedSpawn(c.outcome))
                      [] c.op \in {"Stop", "Pause"} -> stopLocked(adapter)
                      [] OTHER -> [a |-> adapter, err |-> ""]
             ret == CASE c.op = "IsRunning" -> IF IsRunning(adapter) THEN 1 ELSE 0
                      [] c.op = "GetPID" -> GetPID(adapter)
                      [] c.op = "OutputBytes" -> OutputBytes(adapter)
                      [] OTHER -> 0
         IN /\ c.pc = "body"
            /\ c.op # "Restart"
            /\ adapter' = res.a
            /\ call' = [call EXCEPT !.op = c.op, !.err = res.err, !.before = adapter,
                                    !.mu = IF @ = g THEN 0 ELSE @,
                                    !.th[g] = [IdleCall EXCEPT !.ret = ret],
                                    !.mid = @ \/ RestartHalfDone(g)]
    /\ UNCHANGED <<cfg, cfg0, lifecycle, epc, state, result, runErr, tracker, clock, cancelled, tick,
                   lastDir, ctl, telemetryWindow>>
    /\ UNCHANGED <<policyVars, sessionVars>>

\* Restart up to the return of stopLocked
LockedRestartStop ==
    /\ \E g \in Goroutines :
         LET c == call.th[g]
             conc == IF c.concurrency <= 0 THEN adapter.concurrency ELSE c.concurrency
             stopped == stopLocked(adapter)
         IN /\ c.pc = "body"
            /\ c.op = "Restart"
            /\ adapter' = stopped.a
            /\ call' = [call EXCEPT !.before = adapter,
                                    !.th[g] = [c EXCEPT !.pc = "stopped", !.concurrency = conc],
                                    !.mid = @ \/ RestartHalfDone(g)]
    /\ UNCHANGED <<cfg, cfg0, lifecycle, epc, state, result, runErr, tracker, clock, cancelled, tick,
                   lastDir, ctl, telemetryWindow>>
    /\ UNCHANGED <<policyVars, sessionVars>>

\* Restart from the test of a.command to its return, and the deferred
\* a.mu.Unlock()
LockedRestartStart ==
    /\ \E g \in Goroutines :
         LET c == call.th[g]
             res == IF adapter.command = "" THEN [a |-> adapter, err |-> "no command configured"]
                    ELSE startLocked(adapter, adapter.command, c.concurrency,
                                     BoundedSpawn(c.outcome))
         IN /\ c.pc = "stopped"
            /\ adapter' = res.a
            /\ call' = [call EXCEPT !.op = "Restart", !.err = res.err,
                                    !.mu = IF @ = g THEN 0 ELSE @,
                                    !.th[g] = IdleCall,
                                    !.mid = @ \/ RestartHalfDone(g)]
    /\ UNCHANGED <<cfg, cfg0, lifecycle, epc, state, result, runErr, tracker, clock, cancelled, tick,
                   lastDir, ctl, telemetryWindow>>
    /\ UNCHANGED <<policyVars, sessionVars>>

NextLocked ==
    \/ LockedCall
    \/ LockedAcquire
    \/ LockedBody
    \/ LockedRestartStop
    \/ LockedRestartStart
    \/ ChildExit

SpecLocked == InitAdapter /\ [][NextLocked]_vars

----------------------------------------------------------------------------
(* The tracker called directly: NewTracker, then any sequence of Add, Reset *)
(* and RestoreBaseline on it.  Instants do not go back; the total of units  *)
(* grows, or starts again from 0 when the writer that counts it was reset.  *)

\* how many calls are made on one tracker
MaxTrackerCalls == 5

\* throughputWindow and baselineWindow of the trackers made
TrackerConfigs == {<<2 * Second, Second>>, <<Second, 2 * Second>>, <<2 * Second, 0>>}

TrackerGaps == {0, Second}

TrackerTotals(last) == {last, last + 8, 0}

TrackerBaselines == {RatZero, Rat(8, 1)}

TrackerCallNew ==
    /\ call.op = ""
    /\ \E c \in TrackerConfigs : tracker' = NewTracker(c[1], c[2])
    /\ call' = [NoCall EXCEPT !.op = "NewTracker"]
    /\ UNCHANGED <<cfg, cfg0, lifecycle, epc, state, result, runErr, adapter, clock, cancelled, tick,
                   lastDir, ctl, telemetryWindow>>
    /\ UNCHANGED <<policyVars, sessionVars>>

TrackerCallAdd ==
    /\ call.op # ""
    /\ call.calls < MaxTrackerCalls
    /\ \E gap \in TrackerGaps, totalUnits \in TrackerTotals(tracker.lastTotal) :
         LET ts == IF clock = 0 THEN Second ELSE clock + gap
             res == TrackerAdd(tracker, totalUnits, ts)
         IN /\ tracker' = res.t
            /\ clock' = ts
            /\ call' = [call EXCEPT !.op = "Add", !.trackerBefore = tracker, !.sample = res.s,
                                    !.total = totalUnits, !.adds = @ + 1,
                                    !.calls = @ + 1, !.recorded = Append(@, res.s)]
    /\ UNCHANGED <<cfg, cfg0, lifecycle, epc, state, result, runErr, adapter, cancelled, tick,
                   lastDir, ctl, telemetryWindow>>
    /\ UNCHANGED <<policyVars, sessionVars>>

TrackerCallReset ==
    /\ call.op # ""
    /\ call.calls < MaxTrackerCalls
    /\ tracker' = TrackerReset(tracker)
    /\ call' = [call EXCEPT !.op = "Reset", !.trackerBefore = tracker, !.adds = 0,
                            !.seeded = FALSE, !.calls = @ + 1, !.recorded = <<>>]
    /\ UNCHANGED <<cfg, cfg0, lifecycle, epc, state, result, runErr, adapter, clock, cancelled, tick,
                   lastDir, ctl, telemetryWindow>>
    /\ UNCHANGED <<policyVars, sessionVars>>

TrackerCallRestoreBaseline ==
    /\ call.op # ""
    /\ call.calls < MaxTrackerCalls
    /\ \E throughput \in TrackerBaselines : tracker' = RestoreBaseline(tracker, throughput)
    /\ call' = [call EXCEPT !.op = "RestoreBaseline", !.trackerBefore = tracker,
                            !.seeded = TRUE, !.calls = @ + 1]
    /\ UNCHANGED <<cfg, cfg0, lifecycle, epc, state, result, runErr, adapter, clock, cancelled, tick,
                   lastDir, ctl, telemetryWindow>>
    /\ UNCHANGED <<policyVars, sessionVars>>

InitTracker ==
    /\ NoEngine
    /\ PolicyIdle
    /\ SessionIdle
    /\ CallIdle

NextTracker ==
    \/ TrackerCallNew
    \/ TrackerCallAdd
    \/ TrackerCallReset
    \/ TrackerCallRestoreBaseline

SpecTracker == InitTracker /\ [][NextTracker]_vars

----------------------------------------------------------------------------
(* The StateEstimator called directly (as the estimator tests do) on        *)
(* telemetry and throughput windows that change from call to call.          *)

\* how many Estimate calls are made on one estimator
MaxEstimatorCalls == 3

StampedSample(ts, temp, risk, riskValid) ==
    [TelemetrySample(temp, TRUE, 0, FALSE, risk, riskValid) EXCEPT !.Timestamp = ts]

\* telemetry windows: empty, one sample, a rise of 10 degrees in a second with
\* and without a throttle risk, a steady temperature
EstimatorTelemetry ==
    { <<>>,
      <<StampedSample(Second, 60, 0, FALSE)>>,
      <<StampedSample(Second, 60, 0, FALSE), StampedSample(2 * Second, 70, 0, FALSE)>>,
      <<StampedSample(Second, 60, 40, TRUE), StampedSample(2 * Second, 62, 80, TRUE)>>,
      <<StampedSample(Second, 60, 0, FALSE), StampedSample(2 * Second, 60, 20, TRUE)>> }

\* throughput windows: empty, falling, rising
EstimatorThroughputs ==
    { <<>>,
      <<Sample(Second, Rat(10, 1)), Sample(2 * Second, Rat(8, 1))>>,
      <<Sample(Second, Rat(10, 1)), Sample(2 * Second, Rat(12, 1))>> }

EstimatorCall ==
    /\ call.calls < MaxEstimatorCalls
    /\ \E telemetrySamples \in EstimatorTelemetry, throughSamples \in EstimatorThroughputs :
         LET slope == tempSlope(telemetrySamples)
             trend == throughputTrend(throughSamples)
             risk == throttleRiskScore(telemetrySamples)
             res == Estimate(call.est, telemetrySamples, throughSamples)
         IN call' = [call EXCEPT !.op = "Estimate", !.calls = @ + 1,
                                 !.estBefore = call.est, !.est = res.e,
                                 !.raw = <<slope, trend, risk, stabilityEstimate(slope, trend, risk)>>,
                                 !.estimate = res.estimate]
    /\ UNCHANGED engineVars
    /\ UNCHANGED <<policyVars, sessionVars>>

NextEstimator == EstimatorCall

SpecEstimator == InitAdapter /\ [][NextEstimator]_vars

----------------------------------------------------------------------------
(* Properties of the engine (specification Spec) *)

\* the engine entered its loop at least once in this run
Started == ~result.isNil

\* the latest tick reached the policy
Decided == tick.decided.Type # ""


\* C1: once the workload is started, and after every tick and every applied
\* change, min_concurrency <= current_concurrency <= max_concurrency for the
\* bounds as normalised at start-up (1 <= min <= max).
C1_ConcurrencyWithinBounds ==
    Started =>
        /\ 1 <= cfg.MinConcurrency
        /\ cfg.MinConcurrency <= cfg.MaxConcurrency
        /\ cfg.MinConcurrency <= state.CurrentConcurrency
        /\ state.CurrentConcurrency <= cfg.MaxConcurrency
        /\ cfg.MinConcurrency <= result.State.CurrentConcurrency
        /\ result.State.CurrentConcurrency <= cfg.MaxConcurrency

\* a change was applied that stopped at max_concurrency although the policy asked for more
C1_Witness ==
    /\ tick.outcome = "restart_ok"
    /\ tick.decided.Concurrency > cfg.MaxConcurrency
    /\ state.CurrentConcurrency = cfg.MaxConcurrency
    /\ tick.prevConcurrency < cfg.MaxConcurrency

\* C3: the cooldown substitution applies only to directional actions, and a
\* pause the policy returns is executed in the same tick (actuator pause
\* called, "workload_paused" logged unless the pause failed), cooldown or not.
C3_PauseNeverDeferred ==
    /\ (Decided /\ tick.final.Reason = "cooldown") => isDirectionalAction(tick.decided.Type)
    /\ (Decided /\ tick.decided.Type = ActionPause) =>
          /\ tick.pauseCalled
          /\ tick.outcome \in {"pause", "pause_failed"}
          /\ tick.outcome = "pause" =>
                /\ "workload_paused" \in tick.logged
                /\ result.Reason = tick.decided.Reason

\* C4: a non-hold action decided less than max(adjustment_cooldown, the
\* action's cooldown override) after last_action_at (an action was acted on
\* before) is replaced by hold "cooldown", and the workload is not restarted
\* on that tick.
C4_CooldownHolds ==
    ( /\ Decided
      /\ tick.decided.Type # ActionHold
      /\ ~IsZero(tick.prevLastActionAt)
      /\ tick.now - tick.prevLastActionAt
            < (IF tick.decided.CooldownSec > cfg.AdjustmentCooldown
               THEN tick.decided.CooldownSec ELSE cfg.AdjustmentCooldown) )
    => /\ tick.final = Action(ActionHold, tick.prevConcurrency, "cooldown", 0)
       /\ tick.outcome = "hold"
       /\ ~tick.restartCalled
       /\ state.CurrentConcurrency = tick.prevConcurrency

\* the configured cooldown had elapsed but the action's longer override had not
C4_Witness ==
    /\ Decided
    /\ isDirectionalAction(tick.decided.Type)
    /\ ~IsZero(tick.prevLastActionAt)
    /\ tick.now - tick.prevLastActionAt >= cfg.AdjustmentCooldown
    /\ tick.now - tick.prevLastActionAt < tick.decided.CooldownSec
    /\ tick.final.Reason = "cooldown"
    /\ ~tick.restartCalled

\* C5: a directional action opposite to the most recent applied directional
\* action is applied only when at least twice the effective cooldown has
\* elapsed since that action, whatever holds came in between.
C5_ReversalPaysDoubleCooldown ==
    ( /\ tick.restartCalled
      /\ isOppositeDirection(tick.prevDir.Type, tick.final.Type) )
    => tick.now - tick.prevDir.At
         >= 2 * (IF tick.decided.CooldownSec > cfg.AdjustmentCooldown
                 THEN tick.decided.CooldownSec ELSE cfg.AdjustmentCooldown)

\* C6: every applied change moves current_concurrency by at most
\* max_concurrency_step (as normalised, at least 1), with one restart; a tick
\* that applies no change leaves current_concurrency alone.
C6_StepBounded ==
    /\ (Started /\ tick.n > 0) =>
          Abs(state.CurrentConcurrency - tick.prevConcurrency) <= cfg.MaxConcurrencyStep
    /\ tick.outcome = "restart_ok" =>
          /\ state.CurrentConcurrency # tick.prevConcurrency
          /\ state.CurrentConcurrency = tick.final.Concurrency
    /\ (Started /\ tick.n > 0 /\ tick.outcome # "restart_ok") =>
          state.CurrentConcurrency = tick.prevConcurrency

\* target 10 asked at concurrency 2 with step 2: the restart goes to 4
C6_Witness ==
    /\ tick.outcome = "restart_ok"
    /\ tick.decided.Concurrency = 10
    /\ tick.prevConcurrency = 2
    /\ cfg.MaxConcurrencyStep = 2
    /\ state.CurrentConcurrency = 4

\* C8: when the child has exited on its own before a tick, that tick finds
\* the actuator not running and the engine exits with reason
\* "workload_exited_unexpectedly", lifecycle failed, an error the supervisor
\* classifies as recoverable.
C8_ChildExitDetected ==
    (tick.childExited /\ tick.outcome \notin {"none", "max_ticks"})
    => /\ tick.outcome = "not_running"
       /\ result.Reason = "workload_exited_unexpectedly"
       /\ lifecycle.Phase = LifecycleFailed
       /\ isRecoverableFailure(result, runErr)

\* C12: once its context is done the engine runs no further tick: it leaves
\* the loop with reason "shutdown_requested", Start returns no error and the
\* lifecycle ends at stopped.
C12_CancelExitsAtOnce ==
    /\ tick.n > 0 => ~tick.ctxDone
    /\ (cancelled /\ epc = "returned" /\ tick.n > 0) =>
          /\ result.Reason = "shutdown_requested"
          /\ runErr = ""
          /\ lifecycle.Phase = LifecycleStopped

\* C16: when adapter.Restart fails in a tick the concurrency stays, the
\* tracker is not reset, workload_restarted is not logged and the run goes
\* on; the concurrency changes and the tracker is reset only when Restart
\* succeeded.
C16_RestartFailureKeepsState ==
    /\ tick.outcome = "restart_failed" =>
          /\ state.CurrentConcurrency = tick.prevConcurrency
          /\ ~IsZero(tracker.startedAt) /\ tracker.samples # <<>>
          /\ "workload_restarted" \notin tick.logged
          /\ runErr = ""
          /\ epc = "loop" \/ cancelled
    /\ tick.outcome = "restart_ok" =>
          /\ state.CurrentConcurrency = tick.final.Concurrency
          /\ tracker = TrackerReset(tracker)
          /\ "workload_restarted" \in tick.logged
    /\ (tick.n > 0 /\ state.CurrentConcurrency # tick.prevConcurrency) =>
          tick.outcome = "restart_ok"

\* a restart to another concurrency failed and the engine is back at the
\* select of its loop
C16_Witness ==
    /\ tick.outcome = "restart_failed"
    /\ tick.final.Concurrency # tick.prevConcurrency
    /\ epc = "loop"
    /\ ~cancelled
    /\ tracker.samples # <<>>

\* the Config given to engine.New names no command, or a minimum above the
\* maximum
InvalidConfig(c) ==
    \/ c.Command = ""
    \/ c.MaxConcurrency > 0 /\ c.MinConcurrency > c.MaxConcurrency

\* C17: Start with a missing command or with min_concurrency above
\* max_concurrency returns an error, leaves the lifecycle at failed and
\* never starts the workload.
C17_InvalidConfigRejected ==
    (epc \in {"loop", "defer", "returned"} /\ InvalidConfig(cfg0)) =>
        /\ epc = "returned"
        /\ runErr # ""
        /\ result.isNil
        /\ lifecycle.Phase = LifecycleFailed
        /\ adapter.spawned = 0

\* the tick was asked to go beyond the bound the concurrency stood at
AtExtreme ==
    /\ tick.n > 0
    /\ tick.outcome \notin {"max_ticks", "not_running"}
    /\ \/ tick.decided.Type = ActionIncrease /\ tick.prevConcurrency = cfg.MaxConcurrency
       \/ tick.decided.Type = ActionDecrease /\ tick.prevConcurrency = cfg.MinConcurrency

\* C19: an increase decided at current = max, or a decrease decided at
\* current = min, ends as a hold: Restart is not called and the concurrency
\* and last_action_at stay as they were.
C19_HoldAtExtremes ==
    AtExtreme =>
        /\ tick.final.Type = ActionHold
        /\ tick.outcome = "hold"
        /\ ~tick.restartCalled
        /\ state.CurrentConcurrency = tick.prevConcurrency
        /\ state.LastActionAt = tick.prevLastActionAt

\* after two increases took the concurrency to a maximum above the minimum,
\* a third one, decided outside the cooldown, was bounded to a hold
C19_Witness ==
    /\ AtExtreme
    /\ tick.decided.Type = ActionIncrease
    /\ cfg.MinConcurrency < cfg.MaxConcurrency
    /\ cfg.StartConcurrency < cfg.MaxConcurrency
    /\ tick.final.Reason = "bounded by step/min-max"

\* C27: within an engine run, once RunState.BaselineThroughput is set (learned
\* when the warmup window has passed, or seeded from the configuration), every
\* later tick of the run leaves it at that value.
C27_BaselineFrozen ==
    [][(/\ epc = "loop"
        /\ state.BaselineThroughput.n > 0
        /\ state'.Ticks = state.Ticks + 1)
       => state'.BaselineThroughput = state.BaselineThroughput]_vars

\* the place of a phase on the way idle, starting, running, stopping, stopped
PhaseRank(phase) ==
    CASE phase = LifecycleIdle -> 0
      [] phase = LifecycleStarting -> 1
      [] phase = LifecycleRunning -> 2
      [] phase = LifecycleStopping -> 3
      [] phase = LifecycleStopped -> 4
      [] OTHER -> 5

\* C32: during one run the lifecycle phase only moves forward along starting,
\* running, stopping, stopped, or into failed; failed is never left, and when
\* Start has returned after the workload was started the phase is stopped
\* unless the run failed.
C32_LifecycleMovesForward ==
    [][/\ lifecycle'.Phase # lifecycle.Phase =>
            /\ lifecycle.Phase \notin {LifecycleFailed, LifecycleStopped}
            /\ \/ lifecycle'.Phase = LifecycleFailed
               \/ /\ lifecycle'.Phase # LifecycleIdle
                  /\ PhaseRank(lifecycle'.Phase) > PhaseRank(lifecycle.Phase)
       /\ (epc' = "returned" /\ ~result'.isNil) =>
            lifecycle'.Phase \in {LifecycleStopped, LifecycleFailed}
       /\ (epc' = "returned" /\ ~result'.isNil /\ runErr' = "") =>
            lifecycle'.Phase = LifecycleStopped]_vars

\* a run that failed in its loop has returned, and its phase is still failed
C32_Witness ==
    /\ epc = "returned"
    /\ ~result.isNil
    /\ lifecycle.Phase = LifecycleFailed
    /\ result.Reason = "workload_exited_unexpectedly"
    /\ ~IsRunning(adapter)

\* C33: whenever Start has returned after the workload was started (shutdown,
\* max ticks, policy pause, pause failure or unexpected exit), the adapter
\* holds no command and no child it started is alive.
C33_NoChildAfterReturn ==
    (epc = "returned" /\ ~result.isNil) =>
        /\ ~adapter.cmd
        /\ ~adapter.childAlive
        /\ adapter.live = 0
        /\ ~IsRunning(adapter)

\* Start returned at max ticks after a restart: two children were started and
\* none is alive
C33_Witness ==
    /\ epc = "returned"
    /\ result.Reason = "max_ticks_reached"
    /\ ~tick.childExited
    /\ adapter.spawned = 2
    /\ adapter.live = 0
    /\ ~adapter.cmd

\* C38: with MaxTicks = N > 0 the loop is never entered with more than N
\* ticks counted; the tick that counts N + 1 ends the run with reason
\* "max_ticks_reached", no error, the phase stopping and then stopped, and
\* exactly N ticks of the run have sampled telemetry and asked the policy.
C38_MaxTicksEndsRun ==
    /\ (cfg.MaxTicks > 0 /\ epc = "loop") => state.Ticks <= cfg.MaxTicks
    /\ (cfg.MaxTicks > 0 /\ epc \in {"defer", "returned"} /\ ~result.isNil) =>
          state.Ticks <= cfg.MaxTicks + 1
    /\ tick.outcome = "max_ticks" =>
          /\ cfg.MaxTicks > 0
          /\ state.Ticks = cfg.MaxTicks + 1
          /\ Len(telemetryWindow) = cfg.MaxTicks
          /\ result.Reason = "max_ticks_reached"
          /\ runErr = ""
          /\ \/ epc = "defer" /\ lifecycle.Phase = LifecycleStopping
             \/ epc = "returned" /\ lifecycle.Phase = LifecycleStopped
    /\ (cfg.MaxTicks > 0 /\ tick.n = cfg.MaxTicks + 1) => tick.outcome = "max_ticks"

\* a run with MaxTicks = 2 has returned at its third tick after two decisions
C38_Witness ==
    /\ tick.outcome = "max_ticks"
    /\ cfg.MaxTicks = 2
    /\ state.Ticks = 3
    /\ Len(telemetryWindow) = 2
    /\ epc = "returned"
    /\ lifecycle.Phase = LifecycleStopped

----------------------------------------------------------------------------
(* Properties of the rule controller (specification SpecPolicy) *)

\* a direct Decide call answered for the current arguments
Answered == pout.Type # ""

\* the newest sample with a valid memory pressure reports at least 1.0
MemoryCeilingSeen(samples) ==
    \E i \in 1..Len(samples) :
        /\ samples[i].MemoryPressureValid
        /\ samples[i].MemoryPressure >= 100
        /\ \A j \in (i + 1)..Len(samples) : ~samples[j].MemoryPressureValid

\* the newest sample with a valid temperature reports at least hard
HardTempSeen(samples, hard) ==
    \E i \in 1..Len(samples) :
        /\ samples[i].TempValid
        /\ samples[i].TempC >= hard
        /\ \A j \in (i + 1)..Len(samples) : ~samples[j].TempValid

BelowSlowdownSustained(c, through, st, now) ==
    /\ st.BaselineThroughput.n > 0
    /\ \A i \in 1..Len(through) :
          through[i].Timestamp >= now - c.ThroughputFloorWindow =>
            through[i].Throughput.n * st.BaselineThroughput.d * 100
              < c.ThroughputSlowdownFloorRatio * st.BaselineThroughput.n * through[i].Throughput.d
    /\ \E i \in 1..Len(through) :
          /\ through[i].Timestamp >= now - c.ThroughputWindow
          /\ through[i].Throughput.n > 0

\* C20: throughput sustained below baseline x slowdown_ratio, with the
\* recovery attempts not exhausted, makes the policy decide a decrease by
\* max_step x recovery_step_multiplier, with the reason of the aggressive
\* recovery (current 8, step 2, multiplier 3: target 2).
C20_AggressiveDecrease ==
    (/\ Answered
     /\ floorRun > 0
     /\ runBase + floorRun <= ctl.ThroughputRecoveryMaxAttempts
     /\ BelowSlowdownSustained(defaults(ctl), pin.through, pin.st, PolicyNow)) =>
        /\ pout.Type = ActionDecrease
        /\ pout.Concurrency = pin.st.CurrentConcurrency
                                 - ctl.MaxConcurrencyStep * ctl.ThroughputRecoveryStepMultiplier
        /\ pout.Reason = "throughput below slowdown fallback, aggressive recovery"

\* the scenario of the controller's test: current 8, step 2, multiplier 3,
\* rate 4 against a baseline of 10
C20_Witness ==
    /\ Answered
    /\ floorRun = 1
    /\ ctl.MaxConcurrencyStep = 2
    /\ ctl.ThroughputRecoveryStepMultiplier = 3
    /\ pin.st.CurrentConcurrency = 8
    /\ pout.Type = ActionDecrease
    /\ pout.Concurrency = 2
    /\ pout.Reason = "throughput below slowdown fallback, aggressive recovery"

\* C21: when the latest valid temperature reaches the hard temperature
\* threshold (and memory is not at its ceiling), Decide returns an action of
\* type decrease.
C21_HardTempDecreases ==
    (Answered /\ HardTempSeen(pin.samples, ctl.HardTemp) /\ ~MemoryCeilingSeen(pin.samples)) =>
        pout.Type = ActionDecrease

\* the place of the newest sample whose flag is set, 0 when there is none
Newest(samples, flag) ==
    IF \A i \in 1..Len(samples) : ~samples[i][flag] THEN 0
    ELSE CHOOSE i \in 1..Len(samples) :
            samples[i][flag] /\ \A j \in (i + 1)..Len(samples) : ~samples[j][flag]

\* for each of the rules 1 to 10, in the order of their priority, whether its
\* condition holds of the arguments; rule 11 (scale-up, else hold) always applies
RulesMatching(c, samples, through, st, now) ==
    LET t == Newest(samples, "TempValid")
        p == IF t = 0 THEN 0 ELSE Newest(SubSeq(samples, 1, t - 1), "TempValid")
        m == Newest(samples, "MemoryPressureValid")
        r == Newest(samples, "ThrottleRiskValid")
        e == st.Estimate
    IN << m > 0 /\ samples[m].MemoryPressure >= 100,
          t > 0 /\ samples[t].TempC >= c.HardTemp,
          t > 0 /\ p > 0 /\ samples[t].TempC >= c.SoftTemp /\ samples[t].TempC > samples[p].TempC,
          m > 0 /\ samples[m].MemoryPressure >= c.MemoryPressureLimit,
          e.TempSlopeValid /\ e.TempSlopeCPerSec >= c.MaxTempSlopeCPerSec,
          IF e.ThrottleRiskScoreValid THEN e.ThrottleRiskScore >= c.ThrottleRiskLimit
          ELSE r > 0 /\ samples[r].ThrottleRisk >= c.ThrottleRiskLimit,
          e.ThroughputTrendValid /\ e.ThroughputTrend < c.ThroughputTrendDropLimit,
          BelowFloorSustained(c, through, st, now) \/ BelowSlowdownSustained(c, through, st, now),
          t = 0,
          e.ConfidenceValid /\ e.Confidence < c.EstimateConfidenceMin,
          TRUE >>

\* the rule of the highest priority among those that match
FirstRule(matching) == CHOOSE k \in 1..11 : matching[k] /\ \A j \in 1..(k - 1) : ~matching[j]

\* what each rule returns: the type and the reason of its action
RuleOutcomes ==
    << {<<ActionPause, "vram ceiling exceeded">>},
       {<<ActionPause, "hard temperature limit exceeded">>},
       {<<ActionDecrease, "temperature rising at/above soft limit">>},
       {<<ActionDecrease, "memory pressure near saturation">>},
       {<<ActionDecrease, "temperature rising too fast">>},
       {<<ActionDecrease, "throttle risk elevated">>},
       {<<ActionDecrease, "throughput trend dropped">>},
       {<<ActionPause, "throughput recovery attempts exceeded, pausing to preserve state">>,
        <<ActionDecrease, "throughput below slowdown fallback, aggressive recovery">>,
        <<ActionDecrease, "throughput below floor sustained">>},
       {<<ActionHold, "telemetry missing temp, no safe directional action">>},
       {<<ActionHold, "estimate confidence below configured threshold">>},
       {<<ActionIncrease, "temperature and throughput stable">>, <<ActionHold, "no-op">>} >>

\* C23: Decide returns the action of the first rule that matches, in the
\* order VRAM ceiling, hard temperature, rising soft temperature, memory
\* pressure, temperature slope, throttle risk, throughput trend, throughput
\* floor or slowdown, no-temp guard, low-confidence guard, scale-up or else
\* hold: a rule of lower priority never overrides a matching one of higher
\* priority.
C23_FirstMatchingRuleWins ==
    Answered =>
        LET matching == RulesMatching(defaults(ctl), pin.samples, pin.through, pin.st, PolicyNow)
        IN <<pout.Type, pout.Reason>> \in RuleOutcomes[FirstRule(matching)]

\* the temperature slope rule answers although the throttle risk, the
\* throughput trend, the throughput floor and the low-confidence guard match too
C23_Witness ==
    LET matching == RulesMatching(defaults(ctl), pin.samples, pin.through, pin.st, PolicyNow)
    IN /\ Answered
       /\ FirstRule(matching) = 5
       /\ matching[6] /\ matching[7] /\ matching[8] /\ matching[10]
       /\ pout.Type = ActionDecrease
       /\ pout.Reason = "temperature rising too fast"

\* C24: the recovery-attempts counter counts consecutive below-floor
\* decisions only: after every decision at which the floor condition does not
\* hold (throughput is not sustained below the floor) the counter is 0, so
\* that no earlier episode counts towards the pause "throughput recovery
\* attempts exceeded".
C24_CounterCountsConsecutiveOnly ==
    (Answered /\ ~BelowFloorSustained(defaults(ctl), pin.through, pin.st, PolicyNow)) =>
        ctl.throughputRecoveryAttempts = 0

\* C25: when the newest sample of the window, the one of the current tick,
\* has no valid temperature and none of the rules 1 to 8 matches, Decide
\* returns hold with the reason "telemetry missing temp, no safe directional
\* action"; in particular it does not return increase.
C25_NoTempHolds ==
    LET matching == RulesMatching(defaults(ctl), pin.samples, pin.through, pin.st, PolicyNow)
    IN (/\ Answered
        /\ pin.samples # <<>>
        /\ ~pin.samples[Len(pin.samples)].TempValid
        /\ \A k \in 1..8 : ~matching[k]) =>
           /\ pout.Type = ActionHold
           /\ pout.Reason = "telemetry missing temp, no safe directional action"

\* the scale-up conditions that do not depend on an estimate being valid:
\* the newest valid temperature, memory pressure (0 when there is none) and
\* throttle risk, and the gate of the average rate
ScaleUpSignalsClear(c, samples, through, st, now) ==
    LET t == Newest(samples, "TempValid")
        m == Newest(samples, "MemoryPressureValid")
        r == Newest(samples, "ThrottleRiskValid")
        memPressure == IF m = 0 THEN 0 ELSE samples[m].MemoryPressure
        throttleRisk == IF st.Estimate.ThrottleRiskScoreValid THEN st.Estimate.ThrottleRiskScore
                        ELSE IF r = 0 THEN 0 ELSE samples[r].ThrottleRisk
        avgRate == avgThroughput(through, c.ThroughputWindow, now)
    IN /\ st.CurrentConcurrency < st.MaxConcurrency
       /\ t > 0
       /\ samples[t].TempC <= c.SoftTemp - c.TempHysteresisC
       /\ memPressure < c.MemoryPressureLimit - 3
       /\ throttleRisk * 10 < c.ThrottleRiskLimit * 8
       /\ \/ st.BaselineThroughput.n = 0
          \/ avgRate.n * st.BaselineThroughput.d * 100
               >= (c.ThroughputFloorRatio + c.ThroughputRecoveryMargin)
                    * st.BaselineThroughput.n * avgRate.d

----------------------------------------------------------------------------
(* Properties of the session supervisor (specification SpecDaemon) *)

\* the engine runs of the session that have returned to the goroutine
Terminations == 1 .. Len(hist.ended)

Recoverable(e) == e.err # "" /\ e.reason = "workload_exited_unexpectedly"

\* the goroutine is past the decision taken on the latest termination
DecidedOnLast == Len(hist.ended) = hist.runs /\ hist.runs > 0 /\ spc \in {"persist", "done"}

LastEnded == hist.ended[Len(hist.ended)]

\* C9: a recoverable termination met with retries >= recovery_max_retries
\* leaves the session at goal paused and not running, after a call of the
\* adapter's Pause, and writes that to the checkpoint of a stateful session;
\* retries never exceeds recovery_max_retries and a session starts at most
\* recovery_max_retries + 1 engine runs.
C9_RetriesExhaustedPauses ==
    sess.exists =>
        /\ sess.retries <= sess.recoveryMaxRetries
        /\ hist.runs <= sess.recoveryMaxRetries + 1
        /\ (DecidedOnLast /\ Recoverable(LastEnded)
               /\ LastEnded.retries >= sess.recoveryMaxRetries) =>
              /\ sess.goal = SessionGoalPaused
              /\ ~sess.running
              /\ sess.next = "return"
              /\ hist.pauseCalls = 1
              /\ (spc = "done" /\ sess.mode = SessionModeStateful) =>
                    /\ checkpoint = sessionSnapshot(sess)
                    /\ checkpoint.Goal = SessionGoalPaused
                    /\ ~checkpoint.Running

\* a stateful session allowed two retries has used them and a third run ended
\* with the workload gone: three runs, paused, stopped and persisted
C9_Witness ==
    /\ sess.exists
    /\ sess.mode = SessionModeStateful
    /\ spc = "done"
    /\ hist.runs = 3
    /\ Len(hist.ended) = 3
    /\ Recoverable(LastEnded)
    /\ LastEnded.retries = 2
    /\ sess.retries = sess.recoveryMaxRetries
    /\ sess.goal = SessionGoalPaused
    /\ hist.pauseCalls = 1

\* C10: an engine run is followed by another run of the session only if it
\* ended with reason "workload_exited_unexpectedly"; after any other
\* termination the goroutine returns and the session is not running.
C10_OnlyUnexpectedExitRetried ==
    /\ \A i \in Terminations :
          hist.ended[i].reason # "workload_exited_unexpectedly" => hist.runs = i
    /\ (DecidedOnLast /\ LastEnded.reason # "workload_exited_unexpectedly") =>
          /\ ~sess.running
          /\ sess.next = "return"

\* a run that lost its workload was followed by a second run, and the second
\* run, ended for another reason, by none
C10_Witness ==
    /\ spc = "done"
    /\ hist.runs = 2
    /\ Len(hist.ended) = 2
    /\ hist.ended[1].reason = "workload_exited_unexpectedly"
    /\ hist.ended[2].reason # "workload_exited_unexpectedly"
    /\ ~sess.running


\* C11: after stopSession found the session running, the session comes to
\* report running = false.  Only the session goroutine clears running, so
\* once the goroutine has returned the session must not be running.
C11_StopEndsRunning ==
    (sess.exists /\ cancelled /\ spc = "done") => ~sess.running

\* a rule that Decide tests before the temperature slope matches: VRAM
\* ceiling, hard temperature, rising soft temperature or memory pressure
EarlierRuleMatches(c, samples) ==
    LET temp == latestTemp(samples)
        prevTemp == previousTemp(samples)
        memPressure == latestMemoryPressure(samples)
    IN \/ memPressure.ok /\ memPressure.v >= 100
       \/ temp.ok /\ temp.v >= c.HardTemp
       \/ temp.ok /\ prevTemp.ok /\ temp.v >= c.SoftTemp /\ temp.v > prevTemp.v
       \/ memPressure.ok /\ memPressure.v >= c.MemoryPressureLimit

\* the latest tick of the run refreshed the estimate and asked the policy
TickDecided == tick.n = state.Ticks /\ tick.decided.Type # "" /\ state.Estimate.ConfidenceValid

\* C22: a tick decides on the estimate it refreshed: when the temperature
\* slope of that estimate is valid and at least max_temp_slope_c_per_sec and
\* no rule of higher priority matches, the action decided in the tick is
\* decrease.
C22_TickDecidesOnFreshEstimate ==
    (/\ TickDecided
     /\ state.Estimate.TempSlopeValid
     /\ state.Estimate.TempSlopeCPerSec.n * 100
          >= defaults(ctl).MaxTempSlopeCPerSec * state.Estimate.TempSlopeCPerSec.d
     /\ ~EarlierRuleMatches(defaults(ctl), telemetryWindow)) =>
        tick.decided.Type = ActionDecrease

\* C29: when the run of the engine ended by a pause of the policy (Start
\* returned the action's reason and no error), the goal the supervisor records
\* for the session is paused, not stopped.
C29_PolicyPauseRecordsPaused ==
    (/\ spc = "persist"
     /\ tick.outcome = "pause"
     /\ runErr = ""
     /\ sess.result = result) => sess.goal = SessionGoalPaused

\* C30: a run the supervisor starts after a recoverable termination starts
\* from scratch: it begins at start_concurrency with a fresh run state, and the
\* tracker's samples, totals and baseline and the policy's count of recovery
\* attempts of the failed run are gone when it begins.
C30_RetryStartsFromScratch ==
    (/\ spc = "run"
     /\ sess.retries > 0
     /\ epc \in {"new", "loop"}
     /\ state.Ticks = 0) =>
        /\ cfg0 = sess.engineCfg
        /\ epc = "loop" => state = [RunState(cfg.StartConcurrency) EXCEPT
                                      !.BaselineThroughput = cfg.InitialBaselineThroughput,
                                      !.ProcessPID = state.ProcessPID]
        /\ tracker.samples = <<>>
        /\ tracker.lastTotal = 0
        /\ IsZero(tracker.startedAt)
        /\ tracker.baseline = cfg.InitialBaselineThroughput
        /\ ctl.throughputRecoveryAttempts = 0

\* C31: only a stateful session is run again after a failure: the supervisor
\* of a stateless session builds one engine, and does not go on to another
\* run when that one ended with "workload_exited_unexpectedly".
C31_StatelessNotRestarted ==
    (sess.exists /\ sess.mode = SessionModeStateless) =>
        /\ hist.runs <= 1
        /\ sess.retries = 0
        /\ sess.goal # SessionGoalRecovering

\* the goal of the session when its goroutine has finished after stopSession
\* cancelled the run
FinalGoalAfterStop(goal) == (sess.exists /\ cancelled /\ spc = "done") => sess.goal = goal

\* C35: after stopSession found the session running, once the goroutine has
\* finished, the goal of the session is the same in every interleaving of the
\* two: the one stopSession wrote, whichever of the two wrote last.
C35_FinalGoalSame == FinalGoalAfterStop(SessionGoalPaused)

\* no persistSessionState is between its snapshot and the end of its write
NoPersistInFlight == spc \notin {"persist", "write", "flush"} /\ call.stopPc = "idle"

\* C36: for a stateful session, once every persistSessionState that was begun
\* has completed, the checkpoint file holds the latest goal and retries of the
\* session: an earlier snapshot never overwrites a later one.
C36_CheckpointIsLatest ==
    (Persisted(sess) /\ NoPersistInFlight) =>
        /\ ~checkpoint.isNil
        /\ checkpoint.Goal = sess.goal
        /\ checkpoint.Retries = sess.retries

\* C37: the checkpoint file is replaced atomically: from the first persist of
\* a stateful session on, whoever reads the file (a later stateful start that
\* restores from it) finds a complete checkpoint, the previous one or the new
\* one, never an empty or partly written file.
C37_CheckpointAlwaysComplete == Persisted(sess) => ~checkpoint.isNil

----------------------------------------------------------------------------
(* Properties of the adapter (specification SpecAdapter) *)

\* C13: an adapter has at most one live child process, whatever the order
\* of the Start, Restart, Stop, Pause and Resume calls made on it.
C13_AtMostOneLiveChild == adapter.live <= 1

\* a Restart and a Resume each replaced a child, the first one while it was
\* alive, and one child lives
C13_Witness ==
    /\ adapter.spawned = 3
    /\ adapter.live = 1
    /\ call.op = "Restart"
    /\ call.err = ""
    /\ call.before.childAlive

\* C18: Stop on an adapter without a child returns nil and changes nothing;
\* Start on an adapter that holds a child returns "adapter already started",
\* spawns nothing and leaves the adapter and its child as they were.
C18_StopIdleStartTwice ==
    /\ (call.op = "Stop" /\ ~call.before.cmd) =>
          /\ call.err = ""
          /\ adapter = call.before
    /\ (call.op = "Start" /\ call.before.cmd) =>
          /\ call.err = "adapter already started"
          /\ adapter.spawned = call.before.spawned
          /\ adapter \in {call.before, ChildGone(call.before)}

\* Start was refused on an adapter whose second child is alive, and the
\* child is still alive
C18_Witness ==
    /\ call.op = "Start"
    /\ call.before.cmd
    /\ call.before.childAlive
    /\ adapter.childAlive
    /\ adapter.spawned = 2

\* C34: Restart is one atomic section: a goroutine is in the body of a call
\* only while it holds a.mu, and no call of another goroutine (IsRunning,
\* GetPID, OutputBytes, Stop, Pause, Start or another Restart) runs its body
\* between the stop of the old child and the start of the new one.
C34_RestartAtomic ==
    /\ ~call.mid
    /\ \A g \in Goroutines :
         /\ call.th[g].pc \in {"body", "stopped"} => call.mu = g
         /\ call.th[g].pc = "stopped" =>
              /\ ~adapter.cmd
              /\ \A o \in Goroutines \ {g} : call.th[o].pc \in {"idle", "lock"}

\* a Restart has stopped a running child and holds the mutex while IsRunning
\* of the other goroutine waits for it
C34_Witness ==
    \E g \in Goroutines, o \in Goroutines :
        /\ call.th[g].op = "Restart"
        /\ call.th[g].pc = "stopped"
        /\ call.before.childAlive
        /\ call.th[o].op = "IsRunning"
        /\ call.th[o].pc = "lock"

----------------------------------------------------------------------------
(* Properties of the tracker (specification SpecTracker) *)

\* the baseline window has passed between the first and the latest Add
WarmedUp(t) == ~IsZero(t.startedAt) /\ t.lastSample - t.startedAt >= t.baselineWindow

\* the latest call kept a positive baseline positive
KeptPositive == RatPositive(call.trackerBefore.baseline) => RatPositive(tracker.baseline)

C15_AddRate ==
    call.op = "Add" =>
        LET prev == call.trackerBefore
            deltaT == call.sample.Timestamp - prev.lastSample
            rate == call.sample.Throughput
        IN /\ rate.n >= 0 /\ rate.d > 0
           /\ call.adds = 1 => rate = RatZero
           /\ call.adds > 1 =>
                /\ (deltaT > 0 /\ call.total >= prev.lastTotal) =>
                      rate.n * deltaT = (call.total - prev.lastTotal) * Second * rate.d
                /\ ~(deltaT > 0 /\ call.total >= prev.lastTotal) => rate = RatZero
                /\ rate = RatZero <=> (deltaT = 0 \/ call.total <= prev.lastTotal)

\* an Add after the first one returned a positive rate
C15_Witness ==
    /\ call.op = "Add"
    /\ call.adds = 2
    /\ call.total = call.trackerBefore.lastTotal + 8
    /\ call.sample.Throughput = Rat(8, 1)

\* C28: at the first Add with now - startedAt >= baselineWindow of a tracker
\* that was not seeded, the baseline becomes the arithmetic mean of the samples
\* recorded over the last baselineWindow, whatever throughputWindow and
\* baselineWindow are.
C28_BaselineIsWindowMean ==
    (/\ call.op = "Add"
     /\ ~call.seeded
     /\ ~call.trackerBefore.baselineReady
     /\ ~IsZero(call.trackerBefore.startedAt)
     /\ clock - call.trackerBefore.startedAt >= tracker.baselineWindow) =>
        /\ tracker.baselineReady
        /\ tracker.baseline = averageLocked(call.recorded, clock, tracker.baselineWindow)

\* the smoothed values of an estimator and the values of an estimate, in the
\* order slope, trend, risk, stability
SmoothedOf(e) ==
    <<e.smoothedTempSlope, e.smoothedThroughputTrend, e.smoothedThrottleRisk, e.smoothedStability>>

ValuesOf(estimate) ==
    <<estimate.TempSlopeCPerSec, estimate.ThroughputTrend, estimate.ThrottleRiskScore,
      estimate.StabilityIndex>>

\* C39: in every Estimate call each signal's value is alpha * raw +
\* (1 - alpha) * s when its raw value is valid and the estimator was called
\* before, the raw value itself in the first call, and the previous smoothed
\* value s unchanged when the raw value is not valid; the value becomes the
\* new smoothed value.
C39_Smoothing ==
    call.op = "Estimate" =>
        \A i \in 1..4 :
            LET raw == call.raw[i]
                s == SmoothedOf(call.estBefore)[i]
                alpha == call.estBefore.smoothing
                value == ValuesOf(call.estimate)[i]
            IN /\ SmoothedOf(call.est)[i] = value
               /\ ~raw.ok => value = s
               /\ (raw.ok /\ ~call.estBefore.initialized) => value = raw.v
               /\ (raw.ok /\ call.estBefore.initialized) =>
                     value = RatAdd(RatMul(alpha, raw.v),
                                    RatMul(Rat(alpha.d - alpha.n, alpha.d), s))

\* a later call fused a slope of 2 with the smoothed slope 10 of the call
\* before (7.2), while the trend, not valid in this call, kept its smoothed
\* value
C39_Witness ==
    /\ call.op = "Estimate"
    /\ call.estBefore.initialized
    /\ call.estBefore.smoothedTempSlope = Rat(10, 1)
    /\ call.raw[1].ok /\ call.raw[1].v = Rat(2, 1)
    /\ call.estimate.TempSlopeCPerSec = Rat(72, 10)
    /\ ~call.raw[2].ok
    /\ call.estBefore.smoothedThroughputTrend.n # 0
    /\ call.estimate.ThroughputTrend = call.estBefore.smoothedThroughputTrend

\* C40: given the same policy actions and tick instants, and restarts that
\* succeed, the replay simulator applies the same concurrency changes as the
\* engine: after every tick that reached the policy the two hold the same
\* concurrency, and the replay changed it at this tick exactly when the
\* engine restarted the workload.
C40_ReplayMatchesEngine ==
    (tick.n > 0 /\ tick.outcome \in {"hold", "restart_ok", "pause"} /\ tick.restartsOk) =>
        /\ tick.replay.currentConcurrency = state.CurrentConcurrency
        /\ (tick.replay.changedAt = tick.now) <=> (tick.outcome = "restart_ok")

\* the tick where the two part: the engine's previous tick was a hold, so it
\* does not double the cooldown of a reversal that the replay does double
ReplayDiverged ==
    /\ tick.outcome = "restart_ok" /\ tick.restartsOk
    /\ tick.prevLastAction.Type = ActionHold
    /\ isOppositeDirection(tick.prevDir.Type, tick.final.Type)
    /\ tick.replay.currentConcurrency = tick.prevConcurrency
    /\ tick.replay.currentConcurrency # state.CurrentConcurrency

====
